---- MODULE Spec2Model ----
(***************************************************************************)
(* Model of the data layer of the client review dashboard                  *)
(* (relationship_dashboard): the field validator, the lock-file mutex,     *)
(* the edit log store, the audit trail and the per-session control flow    *)
(* of app.py, run by several dashboard processes over the same files.      *)
(*                                                                         *)
(* Text values are sequences of one-character strings, so that trimming,  *)
(* parsing and formatting are computed, not assumed.                       *)
(***************************************************************************)
EXTENDS Integers, Sequences, FiniteSets, TLC

(***************************************************************************)
(* Text helpers                                                            *)
(***************************************************************************)
Empty == << >>

Digit == {"0", "1", "2", "3", "4", "5", "6", "7", "8", "9"}

DigitVal(c) ==
    CASE c = "0" -> 0 [] c = "1" -> 1 [] c = "2" -> 2 [] c = "3" -> 3
      [] c = "4" -> 4 [] c = "5" -> 5 [] c = "6" -> 6 [] c = "7" -> 7
      [] c = "8" -> 8 [] c = "9" -> 9

DigitChar(n) ==
    CASE n = 0 -> "0" [] n = 1 -> "1" [] n = 2 -> "2" [] n = 3 -> "3"
      [] n = 4 -> "4" [] n = 5 -> "5" [] n = 6 -> "6" [] n = 7 -> "7"
      [] n = 8 -> "8" [] n = 9 -> "9"

IsDigits(s) == \A i \in DOMAIN s : s[i] \in Digit

RECURSIVE Num(_)
Num(s) == IF s = Empty THEN 0
          ELSE 10 * Num(SubSeq(s, 1, Len(s) - 1)) + DigitVal(s[Len(s)])

Whitespace == {" ", "\t", "\n", "\r"}

RECURSIVE LStrip(_)
LStrip(s) == IF s # Empty /\ Head(s) \in Whitespace THEN LStrip(Tail(s)) ELSE s

RECURSIVE RStrip(_)
RStrip(s) == IF s # Empty /\ s[Len(s)] \in Whitespace
             THEN RStrip(SubSeq(s, 1, Len(s) - 1)) ELSE s

\* str(value).strip() for the text values that reach the data layer.
normalize_text(value) == RStrip(LStrip(value))

\* The fields of s between occurrences of the separator sep.
RECURSIVE Split(_, _)
Split(s, sep) ==
    IF \A i \in DOMAIN s : s[i] # sep THEN << s >>
    ELSE LET k == CHOOSE i \in DOMAIN s :
                      s[i] = sep /\ \A j \in 1..(i - 1) : s[j] # sep
         IN  << SubSeq(s, 1, k - 1) >> \o Split(SubSeq(s, k + 1, Len(s)), sep)

(***************************************************************************)
(* Calendar dates: << year, month, day >>                                  *)
(***************************************************************************)
\* None of Optional[date]: the empty tuple, a date being a triple.
None == << >>

IsLeap(y) == (y % 4 = 0 /\ y % 100 # 0) \/ y % 400 = 0

DaysInMonth(y, m) ==
    IF m = 2 THEN (IF IsLeap(y) THEN 29 ELSE 28)
    ELSE IF m \in {4, 6, 9, 11} THEN 30 ELSE 31

\* datetime.date(y, m, d): None stands for the ValueError of an invalid date.
MakeDate(y, m, d) ==
    IF y >= 1 /\ m \in 1..12 /\ d >= 1 /\ d <= DaysInMonth(y, m)
    THEN << y, m, d >> ELSE None

DateLess(a, b) ==
    \/ a[1] < b[1]
    \/ a[1] = b[1] /\ a[2] < b[2]
    \/ a[1] = b[1] /\ a[2] = b[2] /\ a[3] < b[3]

Pad(n, width) ==
    IF width = 4
    THEN << DigitChar((n \div 1000) % 10), DigitChar((n \div 100) % 10),
            DigitChar((n \div 10) % 10), DigitChar(n % 10) >>
    ELSE << DigitChar((n \div 10) % 10), DigitChar(n % 10) >>

\* date.isoformat()
isoformat(d) == Pad(d[1], 4) \o << "-" >> \o Pad(d[2], 2) \o << "-" >> \o Pad(d[3], 2)

\* The clock of the model: date.today() of every process.
Today == << 2024, 6, 15 >>

\* strptime's %Y, %m and %d directives on one separated field.
StrpYear(f) == Len(f) = 4 /\ IsDigits(f)
StrpMonth(f) == Len(f) \in {1, 2} /\ IsDigits(f) /\ Num(f) \in 1..12
StrpDay(f) ==
    \/ Len(f) \in {1, 2} /\ IsDigits(f) /\ Num(f) \in 1..31
    \/ Len(f) = 2 /\ f[1] = " " /\ f[2] \in Digit \ {"0"}

DayNum(f) == IF f[1] = " " THEN DigitVal(f[2]) ELSE Num(f)

\* datetime.strptime(raw, fmt).date() for the four formats of parse_date;
\* yi, mi, di are the positions of year, month and day among the fields.
StrptimeFields(f, yi, mi, di) ==
    IF Len(f) = 3 /\ StrpYear(f[yi]) /\ StrpMonth(f[mi]) /\ StrpDay(f[di])
    THEN MakeDate(Num(f[yi]), Num(f[mi]), DayNum(f[di]))
    ELSE None

Strptime(raw, sep, yi, mi, di) == StrptimeFields(Split(raw, sep), yi, mi, di)

\* datetime.fromisoformat(raw).date(): the date followed by a time part.
IsoTime(t) ==
    /\ Len(t) \in {2, 5, 8}
    /\ \A i \in DOMAIN t : IF i \in {3, 6} THEN t[i] = ":" ELSE t[i] \in Digit
    /\ Num(SubSeq(t, 1, 2)) <= 23
    /\ Len(t) >= 5 => Num(SubSeq(t, 4, 5)) <= 59
    /\ Len(t) = 8 => Num(SubSeq(t, 7, 8)) <= 59

StrictIsoDate(s) ==
    /\ Len(s) = 10
    /\ \A i \in DOMAIN s : IF i \in {5, 8} THEN s[i] = "-" ELSE s[i] \in Digit

FromIsoFormat(raw) ==
    IF Len(raw) > 11 /\ StrictIsoDate(SubSeq(raw, 1, 10))
                     /\ IsoTime(SubSeq(raw, 12, Len(raw)))
    THEN MakeDate(Num(SubSeq(raw, 1, 4)), Num(SubSeq(raw, 6, 7)), Num(SubSeq(raw, 9, 10)))
    ELSE None

\* re.match(r"^(\d{4})-(\d{1,2})$", raw_value), on the fields ym of raw_value
\* between hyphens.
YearMonthMatch(ym) ==
    Len(ym) = 2 /\ Len(ym[1]) = 4 /\ IsDigits(ym[1])
                /\ Len(ym[2]) \in {1, 2} /\ IsDigits(ym[2])

\* Lines 65-85: what parse_date tries after the four strptime formats.
ParseTail(raw, ym) ==
    IF YearMonthMatch(ym) /\ Num(ym[2]) \in 1..12
    THEN MakeDate(Num(ym[1]), Num(ym[2]), 1)
    ELSE IF Len(raw) = 4 /\ IsDigits(raw)
    THEN MakeDate(Num(raw), 1, 1)
    ELSE IF Len(raw) \in {1, 2} /\ IsDigits(raw) /\ Num(raw) \in 1..12
    THEN MakeDate(Today[1], Num(raw), 1)
    ELSE FromIsoFormat(raw)

\* The first attempt, in the order of the code, that yields a date.
FirstParsed(attempts) ==
    IF \A i \in DOMAIN attempts : attempts[i] = None THEN None
    ELSE attempts[CHOOSE i \in DOMAIN attempts :
                      /\ attempts[i] # None
                      /\ \A j \in 1..(i - 1) : attempts[j] = None]

\* parse_date from line 56 on, raw being normalize_text(value).
ParseRaw(raw) ==
    IF raw = Empty THEN None
    ELSE FirstParsed(<< Strptime(raw, "-", 1, 2, 3), Strptime(raw, "/", 1, 2, 3),
                        Strptime(raw, "/", 3, 1, 2), Strptime(raw, "-", 3, 1, 2),
                        ParseTail(raw, Split(raw, "-")) >>)

parse_date(value) == ParseRaw(normalize_text(value))

(***************************************************************************)
(* Field validation (services/validation_service.py)                       *)
(***************************************************************************)
MIN_ALLOWED_DATE == << 2022, 1, 1 >>

\* Python's dict.get(key, "") on a dict modelled as a function.
Get(d, k) == IF k \in DOMAIN d THEN d[k] ELSE Empty

EmptyDict == << >>

Result(valid, error, value) == [valid |-> valid, error |-> error, value |-> value]

NoError == << "", "" >>

\* validate_optional_date that rejects today as a date in the future.
ValidateParsed_TodayExcluded(raw_value, parsed_value, field_name, strict_iso) ==
    IF raw_value = Empty THEN Result(TRUE, NoError, Empty)
    ELSE IF strict_iso /\ ~StrictIsoDate(raw_value)
    THEN Result(FALSE, << field_name, "must be in YYYY-MM-DD format" >>, Empty)
    ELSE IF parsed_value = None
    THEN Result(FALSE, << field_name, "must be a valid date" >>, Empty)
    ELSE IF DateLess(parsed_value, MIN_ALLOWED_DATE)
    THEN Result(FALSE, << field_name, "cannot be before minimum" >>, Empty)
    ELSE IF ~DateLess(parsed_value, Today)
    THEN Result(FALSE, << field_name, "cannot be in the future" >>, Empty)
    ELSE Result(TRUE, NoError, isoformat(parsed_value))

\* validate_optional_date that returns the year and the month of the date
\* only.
ValidateParsed_MonthOnly(raw_value, parsed_value, field_name, strict_iso) ==
    IF raw_value = Empty THEN Result(TRUE, NoError, Empty)
    ELSE IF strict_iso /\ ~StrictIsoDate(raw_value)
    THEN Result(FALSE, << field_name, "must be in YYYY-MM-DD format" >>, Empty)
    ELSE IF parsed_value = None
    THEN Result(FALSE, << field_name, "must be a valid date" >>, Empty)
    ELSE IF DateLess(parsed_value, MIN_ALLOWED_DATE)
    THEN Result(FALSE, << field_name, "cannot be before minimum" >>, Empty)
    ELSE IF DateLess(Today, parsed_value)
    THEN Result(FALSE, << field_name, "cannot be in the future" >>, Empty)
    ELSE Result(TRUE, NoError, SubSeq(isoformat(parsed_value), 1, 7))

\* validate_optional_date on raw_value = normalize_text(value) and
\* parsed_value = parse_date(value).
ValidateParsed(raw_value, parsed_value, field_name, strict_iso) ==
    IF raw_value = Empty THEN Result(TRUE, NoError, Empty)
    ELSE IF strict_iso /\ ~StrictIsoDate(raw_value)
    THEN Result(FALSE, << field_name, "must be in YYYY-MM-DD format" >>, Empty)
    ELSE IF parsed_value = None
    THEN Result(FALSE, << field_name, "must be a valid date" >>, Empty)
    ELSE IF DateLess(parsed_value, MIN_ALLOWED_DATE)
    THEN Result(FALSE, << field_name, "cannot be before minimum" >>, Empty)
    ELSE IF DateLess(Today, parsed_value)
    THEN Result(FALSE, << field_name, "cannot be in the future" >>, Empty)
    ELSE Result(TRUE, NoError, isoformat(parsed_value))

validate_optional_date(value, field_name, strict_iso) ==
    ValidateParsed(normalize_text(value), parse_date(value), field_name, strict_iso)

validate_comment(value) == Result(TRUE, NoError, normalize_text(value))

\* Lines 52-77 of validate_edit_payload, on the results of the four field
\* validators.
PayloadResult(review, layer, test, comm) ==
    IF ~review.valid THEN Result(FALSE, review.error, EmptyDict)
    ELSE IF ~layer.valid THEN Result(FALSE, layer.error, EmptyDict)
    ELSE IF ~test.valid THEN Result(FALSE, test.error, EmptyDict)
    ELSE IF ~comm.valid THEN Result(FALSE, comm.error, EmptyDict)
    ELSE Result(TRUE, NoError,
                [review_date |-> review.value, layer_date |-> layer.value,
                 test_date |-> test.value, comment |-> comm.value])

\* validate_edit_payload without the early return on a failing layer_date.
validate_edit_payload_LayerUnchecked(review_date, layer_date, test_date, comment) ==
    PayloadResult(validate_optional_date(review_date, "review_date", FALSE),
                  Result(TRUE, NoError,
                         validate_optional_date(layer_date, "layer_date", FALSE).value),
                  validate_optional_date(test_date, "test_date", TRUE),
                  validate_comment(comment))

\* validate_edit_payload that checks test_date as it checks the two other
\* dates, without strict_iso.
validate_edit_payload_TestLenient(review_date, layer_date, test_date, comment) ==
    PayloadResult(validate_optional_date(review_date, "review_date", FALSE),
                  validate_optional_date(layer_date, "layer_date", FALSE),
                  validate_optional_date(test_date, "test_date", FALSE),
                  validate_comment(comment))

validate_edit_payload(review_date, layer_date, test_date, comment) ==
    PayloadResult(validate_optional_date(review_date, "review_date", FALSE),
                  validate_optional_date(layer_date, "layer_date", FALSE),
                  validate_optional_date(test_date, "test_date", TRUE),
                  validate_comment(comment))

ValidatePayload(values) ==
    validate_edit_payload(Get(values, "review_date"), Get(values, "layer_date"),
                          Get(values, "test_date"), Get(values, "comment"))

(***************************************************************************)
(* Schemas (config.py) and the record codec (utils/helpers.py)             *)
(***************************************************************************)
Range(seq) == {seq[i] : i \in DOMAIN seq}

USER_INPUT_COLUMNS ==
    << "entry_id", "client_id", "review_date", "layer_date", "comment",
       "changed_by", "change_timestamp", "is_active", "previous_entry_id" >>

AUDIT_COLUMNS ==
    << "audit_id", "entry_id", "client_id", "changed_by", "change_timestamp",
       "old_values", "new_values" >>

\* A file: whether the path exists and, if so, the rows under the header line.
AbsentFile == [exists |-> FALSE, rows |-> << >>]

\* A write in place that is cut short in the last row, after its first cell.
FileOf_Truncated(rows) ==
    [exists |-> TRUE,
     rows |-> IF rows = << >> THEN rows
              ELSE [rows EXCEPT ![Len(rows)] = [c \in {"entry_id"} |-> @[c]]]]

\* atomic_write_dataframe: os.replace(temp_name, target_path) puts the
\* complete temporary file in the place of the target.
FileOf(rows) == [exists |-> TRUE, rows |-> rows]

\* The cell texts pandas.read_csv turns into NaN by default.
NaValues ==
    { Empty, << "N", "A" >>, << "N", "/", "A" >>, << "n", "/", "a" >>,
      << "N", "U", "L", "L" >>, << "n", "u", "l", "l" >>,
      << "N", "a", "N" >>, << "n", "a", "n" >>, << "N", "o", "n", "e" >>,
      << "#", "N", "/", "A" >>, << "#", "N", "A" >>, << "<", "N", "A", ">" >>,
      << "-", "N", "a", "N" >>, << "-", "n", "a", "n" >> }

\* pd.read_csv(..., dtype=str).fillna("") on one cell.
FillNa(cell) == IF cell \in NaValues THEN Empty ELSE cell

\* DataFrame.to_csv on a cell of a bool column: True / False.
ToCsvCell(v) == IF v THEN << "T", "r", "u", "e" >> ELSE << "F", "a", "l", "s", "e" >>

IsBool(column) == column = "is_active"

\* dataframe[columns] written by to_csv: one text per column of each row.
ToCsv(df, columns) ==
    [i \in DOMAIN df |->
        [c \in Range(columns) |->
            IF IsBool(c) THEN ToCsvCell(df[i][c]) ELSE df[i][c]]]

read_csv_or_empty(file, columns) ==
    IF ~file.exists THEN << >>
    ELSE [i \in DOMAIN file.rows |->
            [c \in Range(columns) |->
                IF c \in DOMAIN file.rows[i] THEN FillNa(file.rows[i][c]) ELSE Empty]]

LowerChar(c) ==
    CASE c = "T" -> "t" [] c = "R" -> "r" [] c = "U" -> "u" [] c = "E" -> "e"
      [] c = "F" -> "f" [] c = "A" -> "a" [] c = "L" -> "l" [] c = "S" -> "s"
      [] c = "Y" -> "y" [] c = "N" -> "n" [] OTHER -> c

Lower(s) == [i \in DOMAIN s |-> LowerChar(s[i])]

TruthyTexts == { << "t", "r", "u", "e" >>, << "1" >>, << "y", "e", "s" >> }

\* dataframe["is_active"].astype(str).str.lower().isin(["true", "1", "yes"])
ParseActive(df) ==
    [i \in DOMAIN df |-> [df[i] EXCEPT !["is_active"] = (Lower(@) \in TruthyTexts)]]

load_user_inputs(file) == ParseActive(read_csv_or_empty(file, USER_INPUT_COLUMNS))

(***************************************************************************)
(* Edit Log Store: persist_user_edit between reading and writing the log   *)
(***************************************************************************)
CharCode(c) ==
    IF c \in Digit THEN 48 + DigitVal(c)
    ELSE CASE c = "-" -> 45 [] c = ":" -> 58 [] c = "T" -> 84 [] c = "Z" -> 90
           [] OTHER -> 0

\* Python's str ordering on the texts that occur as change_timestamp.
RECURSIVE TextLess(_, _)
TextLess(a, b) ==
    IF b = Empty THEN FALSE
    ELSE IF a = Empty THEN TRUE
    ELSE IF Head(a) # Head(b) THEN CharCode(Head(a)) < CharCode(Head(b))
    ELSE TextLess(Tail(a), Tail(b))

\* sort_values("change_timestamp").iloc[-1] over the rows idx of df: the row
\* with the greatest timestamp, the last of them in file order.
LastByTimestamp(df, idx) ==
    CHOOSE i \in idx : \A j \in idx \ {i} :
        \/ TextLess(df[j]["change_timestamp"], df[i]["change_timestamp"])
        \/ df[j]["change_timestamp"] = df[i]["change_timestamp"] /\ j < i

NoValues == [review_date |-> Empty, layer_date |-> Empty,
             test_date |-> Empty, comment |-> Empty]

ActiveMask(df, client_id) ==
    {i \in DOMAIN df : df[i]["client_id"] = client_id /\ df[i]["is_active"]}

PreviousEntryId(df, client_id) ==
    LET active_mask == ActiveMask(df, client_id)
    IN  IF active_mask = {} THEN Empty
        ELSE Get(df[LastByTimestamp(df, active_mask)], "entry_id")

OldValues(df, client_id) ==
    LET active_mask == ActiveMask(df, client_id)
        previous_active == df[LastByTimestamp(df, active_mask)]
    IN  IF active_mask = {} THEN NoValues
        ELSE [review_date |-> Get(previous_active, "review_date"),
              layer_date |-> Get(previous_active, "layer_date"),
              test_date |-> Get(previous_active, "test_date"),
              comment |-> Get(previous_active, "comment")]

\* Deactivate that flips the flag of every entry of the client.
Deactivate_Flips(df, client_id) ==
    [i \in DOMAIN df |->
        IF df[i]["client_id"] = client_id
        THEN [df[i] EXCEPT !["is_active"] = ~@] ELSE df[i]]

\* Deactivate that leaves the previous active rows as they are.
Deactivate_Skipped(df, client_id) == df

\* user_inputs_df.loc[active_mask, "is_active"] = False
Deactivate(df, client_id) ==
    [i \in DOMAIN df |->
        IF i \in ActiveMask(df, client_id)
        THEN [df[i] EXCEPT !["is_active"] = FALSE] ELSE df[i]]

NewRow(df, entry_id, client_id, changed_by, timestamp, normalized_values) ==
    [entry_id |-> entry_id,
     client_id |-> client_id,
     review_date |-> Get(normalized_values, "review_date"),
     layer_date |-> Get(normalized_values, "layer_date"),
     test_date |-> Get(normalized_values, "test_date"),
     comment |-> Get(normalized_values, "comment"),
     changed_by |-> changed_by,
     change_timestamp |-> timestamp,
     is_active |-> TRUE,
     previous_entry_id |-> PreviousEntryId(df, client_id)]

\* UpdatedLog in which the deactivation runs after the new row was appended.
UpdatedLog_DeactivatesNewRow(df, entry_id, client_id, changed_by, timestamp, normalized_values) ==
    ToCsv(Deactivate(Append(df, NewRow(df, entry_id, client_id, changed_by, timestamp,
                                       normalized_values)),
                     client_id),
          USER_INPUT_COLUMNS)

\* The content persist_user_edit hands to atomic_write_dataframe, computed
\* from the log df it read under the lock.
UpdatedLog(df, entry_id, client_id, changed_by, timestamp, normalized_values) ==
    ToCsv(Append(Deactivate(df, client_id),
                 NewRow(df, entry_id, client_id, changed_by, timestamp, normalized_values)),
          USER_INPUT_COLUMNS)

\* get_active_user_inputs: one active entry per client, or the KeyError of
\* selecting a column the frame does not have.
ActiveColumns == {"client_id", "entry_id", "review_date", "layer_date", "test_date", "comment"}

Frame(error, rows) == [error |-> error, rows |-> rows]

get_active_user_inputs(df) ==
    LET active == {i \in DOMAIN df : df[i]["is_active"]}
        last(c) == LastByTimestamp(df, {i \in active : df[i]["client_id"] = c})
    IN  IF active = {} THEN Frame("", {})
        ELSE IF \E i \in active : ~(ActiveColumns \subseteq DOMAIN df[i])
        THEN Frame("KeyError", {})
        ELSE Frame("", {[c \in ActiveColumns |-> df[last(df[i]["client_id"])][c]] : i \in active})

(***************************************************************************)
(* Catalog: load_clients and deduplicate_latest_clients                    *)
(***************************************************************************)
ALLOWED_TAGS == { << "G" >>, << "U" >>, << "P" >> }

REQUIRED_CLIENT_COLUMNS ==
    << "client_id", "tag", "region", "region1", "region2", "pod", "CA", "RM",
       "review_cawb", "SG", "layer" >>

\* Lines 45-46: _row_order is the position in the frame as read, counted
\* from 0, and the tag is stripped.
WithRowOrder(df) ==
    [i \in DOMAIN df |->
        [c \in DOMAIN df[i] \cup {"_row_order"} |->
            IF c = "_row_order" THEN i - 1
            ELSE IF c = "tag" THEN normalize_text(df[i][c]) ELSE df[i][c]]]

\* dataframe["tag"].isin(ALLOWED_TAGS)
AllowedTag(row) == normalize_text(row["tag"]) \in ALLOWED_TAGS

\* load_clients that numbers the rows after dropping those of other tags.
load_clients_Renumbered(file) ==
    IF ~file.exists THEN Frame("FileNotFoundError", << >>)
    ELSE Frame("", WithRowOrder(SelectSeq(read_csv_or_empty(file, REQUIRED_CLIENT_COLUMNS),
                                          AllowedTag)))

\* Lines 39-44 read the file as read_csv_or_empty does: every cell a text,
\* NaN filled with "", a missing required column added with "".
load_clients(file) ==
    IF ~file.exists THEN Frame("FileNotFoundError", << >>)
    ELSE Frame("", SelectSeq(WithRowOrder(read_csv_or_empty(file, REQUIRED_CLIENT_COLUMNS)),
                             AllowedTag))

\* pd.to_datetime(..., errors="coerce") on the texts found in review_cawb: an
\* ISO date, or NaT (None) for an empty cell and for a text that is no date.
to_datetime(text) ==
    IF StrictIsoDate(text)
    THEN MakeDate(Num(SubSeq(text, 1, 4)), Num(SubSeq(text, 6, 7)), Num(SubSeq(text, 9, 10)))
    ELSE None

\* Series.idxmax() of _row_order over the rows idx.
RowOrderMax(df, idx) ==
    CHOOSE i \in idx : \A j \in idx : df[j]["_row_order"] <= df[i]["_row_order"]

\* pick_latest_row in which the first of the rows of the maximum date wins.
pick_latest_row_FirstWins(df, group) ==
    LET dated_rows == {i \in group : to_datetime(df[i]["review_cawb"]) # None}
        max_rows == {i \in dated_rows : \A j \in dated_rows :
                        ~DateLess(to_datetime(df[i]["review_cawb"]),
                                  to_datetime(df[j]["review_cawb"]))}
    IN  IF dated_rows # {}
        THEN CHOOSE i \in max_rows : \A j \in max_rows : i <= j
        ELSE RowOrderMax(df, group)

pick_latest_row(df, group) ==
    LET dated_rows == {i \in group : to_datetime(df[i]["review_cawb"]) # None}
        max_rows == {i \in dated_rows : \A j \in dated_rows :
                        ~DateLess(to_datetime(df[i]["review_cawb"]),
                                  to_datetime(df[j]["review_cawb"]))}
    IN  IF dated_rows # {} THEN RowOrderMax(df, max_rows) ELSE RowOrderMax(df, group)

\* Lines 72-81: the columns taken from the last occurrence of the client.
LastOccurrenceColumns == {"review_cawb", "region", "region1", "region2"}

\* The row of one client: row latest of df, with the columns above of row last.
LatestRow(df, latest, last) ==
    [c \in DOMAIN df[latest] |->
        IF c \in LastOccurrenceColumns THEN df[last][c] ELSE df[latest][c]]

Group(df, client_id) == {i \in DOMAIN df : df[i]["client_id"] = client_id}

\* sort_values in descending order.
RECURSIVE sort_values_Descending(_)
sort_values_Descending(rows) ==
    IF rows = {} THEN << >>
    ELSE LET first == CHOOSE r \in rows : \A q \in rows \ {r} :
                          TextLess(q["client_id"], r["client_id"])
         IN  << first >> \o sort_values_Descending(rows \ {first})

\* sort_values("client_id").reset_index(drop=True) on rows of different
\* client_id.
RECURSIVE sort_values(_)
sort_values(rows) ==
    IF rows = {} THEN << >>
    ELSE LET first == CHOOSE r \in rows : \A q \in rows \ {r} :
                          TextLess(r["client_id"], q["client_id"])
         IN  << first >> \o sort_values(rows \ {first})

deduplicate_latest_clients(df) ==
    IF df = << >> THEN << >>
    ELSE sort_values({LatestRow(df, pick_latest_row(df, Group(df, c)),
                                RowOrderMax(df, Group(df, c))) :
                         c \in {df[i]["client_id"] : i \in DOMAIN df}})

(***************************************************************************)
(* Status and the merged view (services/data_loader.py, app.py)            *)
(***************************************************************************)
\* The client_ids of the deduplicated catalog the dashboard processes show.
Catalog == {<< "c", "1" >>, << "c", "2" >>}

\* get_latest_clients of that catalog, as far as the view of a run uses it.
CatalogRows == << [client_id |-> << "c", "1" >>], [client_id |-> << "c", "2" >>] >>

STATUS_LABELS ==
    [MISSING |-> "red MISSING", OVERDUE |-> "orange OVERDUE", ACTIVE |-> "green ACTIVE"]

\* today - relativedelta(months=12): the same month of the year before, the
\* day cut down to the length of that month.
overdue_cutoff(today) ==
    LET last_day == DaysInMonth(today[1] - 1, today[2])
    IN  << today[1] - 1, today[2], IF today[3] > last_day THEN last_day ELSE today[3] >>

\* _compute_status with the cutoff day itself not yet overdue.
StatusOf_StrictlyBefore(parsed_review, today) ==
    IF parsed_review = None THEN "MISSING"
    ELSE IF DateLess(parsed_review, overdue_cutoff(today)) THEN "OVERDUE"
    ELSE "ACTIVE"

\* _compute_status from line 119 on, parsed_review being parse_date(review_date).
StatusOf(parsed_review, today) ==
    IF parsed_review = None THEN "MISSING"
    ELSE IF ~DateLess(overdue_cutoff(today), parsed_review) THEN "OVERDUE"
    ELSE "ACTIVE"

_compute_status(review_date) == StatusOf(parse_date(review_date), Today)

compute_status_label(review_date) == STATUS_LABELS[_compute_status(review_date)]

\* The elements of a set as a sequence, in an order that plays no part.
RECURSIVE SetToSeq(_)
SetToSeq(S) ==
    IF S = {} THEN << >>
    ELSE LET x == CHOOSE y \in S : TRUE IN << x >> \o SetToSeq(S \ {x})

\* The row of the merged frame for one client row and one matching row of
\* the active inputs (edit: its columns but client_id; none: NaN, filled).
MergedRow(client, edit) ==
    client @@ [review_date |-> Get(edit, "review_date"),
               layer_date |-> Get(edit, "layer_date"),
               test_date |-> Get(edit, "test_date"),
               comment |-> Get(edit, "comment"),
               active_entry_id |-> Get(edit, "entry_id"),
               status |-> compute_status_label(Get(edit, "review_date")),
               selected |-> FALSE]

\* The left join of one client row: a row per match, one row without any.
JoinedRows(client, matches) ==
    IF matches = << >> THEN << MergedRow(client, EmptyDict) >>
    ELSE [i \in DOMAIN matches |-> MergedRow(client, matches[i])]

RECURSIVE merge_clients_with_user_inputs(_, _)
merge_clients_with_user_inputs(clients_df, active_inputs_df) ==
    IF clients_df = << >> THEN << >>
    ELSE JoinedRows(Head(clients_df),
                    SetToSeq({r \in active_inputs_df :
                                  r["client_id"] = Head(clients_df)["client_id"]}))
             \o merge_clients_with_user_inputs(Tail(clients_df), active_inputs_df)

\* merged_df.set_index("client_id")["status"].to_dict().get(client_id): the
\* status of the last row of the client, None ("") without one.
persisted_status(merged_df, client_id) ==
    LET at == {i \in DOMAIN merged_df : merged_df[i]["client_id"] = client_id}
    IN  IF at = {} THEN ""
        ELSE merged_df[CHOOSE i \in at : \A j \in at : j <= i]["status"]

\* app.py lines 247-261: the overrides with a valid status that differ from
\* the status of the merged frame.
pending_overrides(merged_df, overrides) ==
    {o \in overrides :
        /\ o[2] \in {STATUS_LABELS[k] : k \in DOMAIN STATUS_LABELS}
        /\ persisted_status(merged_df, o[1]) # o[2]}

\* Lines 262-266: the status column shown, a pending override first.
ShownStatus(merged_df, pending, client_id) ==
    IF \E o \in pending : o[1] = client_id
    THEN (CHOOSE o \in pending : o[1] = client_id)[2]
    ELSE persisted_status(merged_df, client_id)

\* The session after lines 245-266 of a run that loaded active_inputs_df.
Rendered(merged_df, pending) ==
    [status_overrides |-> pending,
     shown |-> [c \in Catalog |-> ShownStatus(merged_df, pending, c)]]

(***************************************************************************)
(* Audit Trail: append_audit_entry between reading and writing the file    *)
(***************************************************************************)
AuditRow(audit_id, entry_id, client_id, changed_by, timestamp, old_values, new_values) ==
    [audit_id |-> audit_id,
     entry_id |-> entry_id,
     client_id |-> client_id,
     changed_by |-> changed_by,
     change_timestamp |-> timestamp,
     old_values |-> old_values,
     new_values |-> new_values]

\* old_values and new_values are json.dumps texts, which start with a brace
\* and so are never NaN cells: they are kept as the dicts they encode.
ReadAudit(file) ==
    IF ~file.exists THEN << >>
    ELSE [i \in DOMAIN file.rows |->
            [c \in Range(AUDIT_COLUMNS) |->
                IF c \in {"old_values", "new_values"} THEN file.rows[i][c]
                ELSE FillNa(file.rows[i][c])]]

(***************************************************************************)
(* Bounds and inputs                                                       *)
(***************************************************************************)
\* Edit requests that pass validation, all sessions together.
MaxEdits == 2
\* Processes that stop in the middle of an operation.
MaxCrashes == 1

Procs == {"p1", "p2"}
NoProc == "none"

UserName(p) == IF p = "p1" THEN << "u", "1" >> ELSE << "u", "2" >>

D_2024_01 == << "2", "0", "2", "4", "-", "0", "1" >>
D_2023_05_06 == << "2", "0", "2", "3", "-", "0", "5", "-", "0", "6" >>
D_2024_01_05 == << "2", "0", "2", "4", "-", "0", "1", "-", "0", "5" >>
D_2000_01_01 == << "2", "0", "0", "0", "-", "0", "1", "-", "0", "1" >>
D_2024_06_16 == << "2", "0", "2", "4", "-", "0", "6", "-", "1", "6" >>
D_junk == << "s", "o", "o", "n" >>
T_ok == << " ", "o", "k" >>
T_NA == << "N", "A" >>

Payload(review_date, layer_date, test_date, comment) ==
    [review_date |-> review_date, layer_date |-> layer_date,
     test_date |-> test_date, comment |-> comment]

\* The new_values of the edit requests the sessions submit.
ValidPayloads ==
    { Payload(D_2024_01, Empty, Empty, T_ok),
      Payload(D_2023_05_06, D_2024_01, D_2024_01_05, T_NA) }

InvalidPayloads ==
    { Payload(D_2000_01_01, Empty, Empty, T_ok),
      Payload(D_2023_05_06, D_2024_06_16, Empty, Empty),
      Payload(Empty, D_2023_05_06, D_2024_01, Empty),
      Payload(D_junk, Empty, D_2024_01_05, T_ok) }

Payloads == ValidPayloads \cup InvalidPayloads

Request(client_id, new_values) == [client_id |-> client_id, new_values |-> new_values]

Client1 == << "c", "1" >>
Client2 == << "c", "2" >>

\* The edit requests of the sessions: client c1 with every payload, client c2
\* with one valid payload.
Requests ==
    {Request(Client1, nv) : nv \in Payloads}
        \cup {Request(Client2, Payload(D_2024_01, Empty, Empty, T_ok))}

\* str(uuid4()): a fresh token per call. An entry has at most one audit
\* append, so the token of that call is named after the entry.
EntryId(n) == << "e", DigitChar(n) >>
AuditId(entry_id) == << "a" >> \o Tail(entry_id)

\* iso_now(): the UTC time to the second. The calls of one run fall into one
\* second, the case in which change_timestamp orders nothing.
iso_now ==
    isoformat(Today) \o << "T", "0", "9", ":", "3", "0", ":", "0", "0", "Z" >>

(***************************************************************************)
(* State                                                                   *)
(***************************************************************************)
VARIABLES
    userFile,    \* USER_INPUTS_FILE
    auditFile,   \* AUDIT_LOG_FILE
    lock,        \* per target file, the process whose sentinel exists
    pc,          \* where each dashboard process stands
    req,         \* the edit request a process is handling
    loc,         \* the locals of persist_user_edit / append_audit_entry
    messages,    \* the session's queued validation messages and notifications
    accepted,    \* history: the committed persist_user_edit calls, in lock order
    returned,    \* history: entry ids persist_user_edit returned to its caller
    session,     \* st.session_state of each process: status_overrides, and the
                 \* status column of the table it rendered last
    arg,         \* the argument of a call of one of the pure functions
    res          \* the function called and what it returned

vars == << userFile, auditFile, lock, pc, req, loc, messages, accepted, returned,
           session, arg, res >>

\* No call of a pure function is under way.
NoArg == [fn |-> "none"]
NoRes == [fn |-> "none"]

\* init_session_state: no override; nothing rendered yet.
NoSession == [status_overrides |-> {}, shown |-> [c \in Catalog |-> ""]]

NoRequest == [client_id |-> Empty, new_values |-> EmptyDict]

\* saved: persist_user_edit has returned; ok: the write in progress succeeded.
NoLocals == [normalized |-> EmptyDict, entry_id |-> Empty, old_values |-> NoValues,
             pending |-> << >>, saved |-> FALSE, ok |-> FALSE]

Init ==
    /\ userFile = AbsentFile
    /\ auditFile = AbsentFile
    /\ lock = [f \in {"user", "audit"} |-> NoProc]
    /\ pc = [p \in Procs |-> "start"]
    /\ req = [p \in Procs |-> NoRequest]
    /\ loc = [p \in Procs |-> NoLocals]
    /\ messages = [p \in Procs |-> << >>]
    /\ accepted = << >>
    /\ returned = {}
    /\ session = [p \in Procs |-> NoSession]
    /\ arg = NoArg
    /\ res = NoRes

\* Accepted edit requests: committed to the log, or still on their way to it.
EditsUnderWay ==
    Len(accepted)
        + Cardinality({q \in Procs :
                          pc[q] \in {"pue_validate", "pue_lock", "pue_read", "pue_write"}})

\* uuid4(): a token no earlier call returned; of those, the first one that
\* no entry, audit row or running call holds.
UsedEntryIds ==
    {accepted[i].entry_id : i \in DOMAIN accepted} \cup {loc[q].entry_id : q \in Procs}

FreshEntryId ==
    EntryId(CHOOSE n \in 1..9 :
                /\ EntryId(n) \notin UsedEntryIds
                /\ \A m \in 1..(n - 1) : EntryId(m) \in UsedEntryIds)

Goto(p, label) == pc' = [pc EXCEPT ![p] = label]

\* queue_notification("warning", f"Client {client_id}: Save failed ({exc})."):
\* the level and the exception that was caught.
SaveFailed(exc) ==
    CASE exc = "TimeoutError" -> "warning: TimeoutError"
      [] exc = "OSError" -> "warning: OSError"
      [] exc = "ValueError" -> "warning: ValueError"

\* queue_validation_message / queue_notification: the kind of message queued
\* (the wording is presentation).
Notify(p, level) == messages' = [messages EXCEPT ![p] = Append(@, level)]

\* The handler of the request ends: its locals are gone, but for the id of
\* the entry it saved.
Return(p, level) ==
    /\ Goto(p, "done")
    /\ Notify(p, level)
    /\ req' = [req EXCEPT ![p] = NoRequest]
    /\ loc' = [loc EXCEPT ![p] =
                 [NoLocals EXCEPT !.entry_id = IF loc[p].saved THEN loc[p].entry_id ELSE Empty,
                                  !.saved = loc[p].saved]]

(***************************************************************************)
(* main(): ensure_data_files and the load of the log, in every run         *)
(***************************************************************************)
\* if not user_inputs_file.exists()
EnsureUserCheck(p) ==
    /\ pc[p] = "start"
    /\ Goto(p, IF userFile.exists THEN "ens_audit_check" ELSE "ens_user_write")
    /\ UNCHANGED << userFile, auditFile, lock, req, loc, messages, accepted, returned,
                    session, arg, res >>

\* atomic_write_dataframe(pd.DataFrame(columns=USER_INPUT_COLUMNS), user_inputs_file)
EnsureUserWrite(p) ==
    /\ pc[p] = "ens_user_write"
    /\ userFile' = FileOf(<< >>)
    /\ Goto(p, "ens_audit_check")
    /\ UNCHANGED << auditFile, lock, req, loc, messages, accepted, returned,
                    session, arg, res >>

\* if not audit_file.exists()
EnsureAuditCheck(p) ==
    /\ pc[p] = "ens_audit_check"
    /\ Goto(p, IF auditFile.exists THEN "load" ELSE "ens_audit_write")
    /\ UNCHANGED << userFile, auditFile, lock, req, loc, messages, accepted, returned,
                    session, arg, res >>

\* atomic_write_dataframe(pd.DataFrame(columns=AUDIT_COLUMNS), audit_file)
EnsureAuditWrite(p) ==
    /\ pc[p] = "ens_audit_write"
    /\ auditFile' = FileOf(<< >>)
    /\ Goto(p, "load")
    /\ UNCHANGED << userFile, lock, req, loc, messages, accepted, returned,
                    session, arg, res >>

\* load_user_inputs and get_active_user_inputs for the table of this run. An
\* exception reaches main's except clause: st.error and st.stop(), and the
\* run ends before the edit requests are handled.
Render(p, active_inputs_df, merged_df) ==
    IF active_inputs_df.error # ""
    THEN /\ Goto(p, "stopped")
         /\ UNCHANGED session
    ELSE /\ Goto(p, "ready")
         /\ session' = [session EXCEPT ![p] =
                           Rendered(merged_df,
                                    pending_overrides(merged_df, @.status_overrides))]

LoadUserInputs(p) ==
    /\ pc[p] = "load"
    /\ Render(p, get_active_user_inputs(load_user_inputs(userFile)),
              merge_clients_with_user_inputs(
                  CatalogRows, get_active_user_inputs(load_user_inputs(userFile)).rows))
    /\ UNCHANGED << userFile, auditFile, lock, req, loc, messages, accepted, returned,
                    arg, res >>

\* The next run of main(): st.rerun() after a handled request (needs_refresh),
\* or the user reloading the page, also after a stopped run. The queued
\* messages are shown and cleared.
Rerun(p) ==
    /\ pc[p] \in {"ready", "done", "stopped"}
    /\ Goto(p, "start")
    /\ loc' = [loc EXCEPT ![p] = NoLocals]
    /\ messages' = [messages EXCEPT ![p] = << >>]
    /\ UNCHANGED << userFile, auditFile, lock, req, accepted, returned,
                    session, arg, res >>

(***************************************************************************)
(* process_inline_edits / process_bulk_edit: one edit request. The further *)
(* requests of a list are handled like the request of the next run.        *)
(***************************************************************************)
\* validate_edit_payload fails: the message is queued, the request dropped.
RejectEdit(p, request) ==
    /\ pc[p] = "ready"
    /\ ~ValidatePayload(request.new_values).valid
    /\ Return(p, "validation")
    /\ UNCHANGED << userFile, auditFile, lock, accepted, returned,
                    session, arg, res >>

\* validate_edit_payload passes: persist_user_edit is called with the
\* normalized values.
AcceptEdit(p, request) ==
    /\ pc[p] = "ready"
    /\ EditsUnderWay < MaxEdits
    /\ LET result == ValidatePayload(request.new_values)
       IN  /\ result.valid
           /\ loc' = [loc EXCEPT ![p] = [NoLocals EXCEPT !.normalized = result.value]]
    /\ req' = [req EXCEPT ![p] = request]
    /\ Goto(p, "pue_validate")
    /\ UNCHANGED << userFile, auditFile, lock, messages, accepted, returned,
                    session, arg, res >>

(***************************************************************************)
(* file_lock (utils/helpers.py)                                            *)
(***************************************************************************)
\* TryLock with O_CREAT alone: an existing sentinel is opened, not refused.
TryLock_NotExclusive(p, f) == lock' = [lock EXCEPT ![f] = p]

\* TryLock on one sentinel for the whole data directory.
TryLock_OneSentinel(p, f) ==
    /\ \A g \in DOMAIN lock : lock[g] = NoProc
    /\ lock' = [lock EXCEPT ![f] = p]

\* Unlock without the finally clause: the sentinel stays.
Unlock_Skipped(p, f) == lock' = lock

\* file_lock without the timeout: the loop retries for ever.
LockTimedOut_Never(p, f) == FALSE

\* os.open(lock_path, O_CREAT | O_EXCL | O_RDWR) succeeds.
TryLock(p, f) ==
    /\ lock[f] = NoProc
    /\ lock' = [lock EXCEPT ![f] = p]

\* The sentinel exists and timeout_seconds have passed: TimeoutError.
LockTimedOut(p, f) == lock[f] # NoProc

\* finally: os.close(fd); os.remove(lock_path)
Unlock(p, f) == lock' = [lock EXCEPT ![f] = NoProc]

(***************************************************************************)
(* persist_user_edit, step by step                                         *)
(***************************************************************************)
\* Lines 158-165: the values passed in are validated again; ValueError, or
\* on to file_lock with the result.
ValidateAgain(p) ==
    /\ pc[p] = "pue_validate"
    /\ LET again == ValidatePayload(loc[p].normalized)
       IN  IF ~again.valid
           THEN Return(p, SaveFailed("ValueError"))
           ELSE /\ loc' = [loc EXCEPT ![p].normalized = again.value]
                /\ Goto(p, "pue_lock")
                /\ UNCHANGED << req, messages >>
    /\ UNCHANGED << userFile, auditFile, lock, accepted, returned,
                    session, arg, res >>

AcquireUserLock(p) ==
    /\ pc[p] = "pue_lock"
    /\ TryLock(p, "user")
    /\ Goto(p, "pue_read")
    /\ UNCHANGED << userFile, auditFile, req, loc, messages, accepted, returned,
                    session, arg, res >>

\* A timed-out persist_user_edit that goes on to rewrite the log.
TimeoutUserLock_WritesAnyway(p) ==
    /\ pc[p] = "pue_lock"
    /\ LockTimedOut(p, "user")
    /\ userFile' = FileOf(UpdatedLog(load_user_inputs(userFile), FreshEntryId,
                                     req[p].client_id, UserName(p), iso_now,
                                     loc[p].normalized))
    /\ Return(p, SaveFailed("TimeoutError"))
    /\ UNCHANGED << auditFile, lock, accepted, returned, session, arg, res >>

TimeoutUserLock(p) ==
    /\ pc[p] = "pue_lock"
    /\ LockTimedOut(p, "user")
    /\ Return(p, SaveFailed("TimeoutError"))
    /\ UNCHANGED << userFile, auditFile, lock, accepted, returned,
                    session, arg, res >>

\* Lines 168-206: read the log, deactivate, build the new row and the frame
\* to write.
ReadUserLog(p) ==
    /\ pc[p] = "pue_read"
    /\ LET user_inputs_df == load_user_inputs(userFile)
           entry_id == FreshEntryId
       IN  loc' = [loc EXCEPT ![p] =
                     [@ EXCEPT !.entry_id = entry_id,
                               !.old_values = OldValues(user_inputs_df, req[p].client_id),
                               !.pending = UpdatedLog(user_inputs_df, entry_id,
                                                      req[p].client_id, UserName(p),
                                                      iso_now, loc[p].normalized)]]
    /\ Goto(p, "pue_write")
    /\ UNCHANGED << userFile, auditFile, lock, req, messages, accepted, returned,
                    session, arg, res >>

AcceptedCall(p) ==
    [entry_id |-> loc[p].entry_id,
     client_id |-> req[p].client_id,
     new_values |-> loc[p].normalized,
     previous_entry_id |-> loc[p].pending[Len(loc[p].pending)]["previous_entry_id"]]

\* atomic_write_dataframe: os.replace(temp_name, target_path)
WriteUserLog(p) ==
    /\ pc[p] = "pue_write"
    /\ userFile' = FileOf(loc[p].pending)
    /\ loc' = [loc EXCEPT ![p].ok = TRUE, ![p].pending = << >>]
    /\ accepted' = Append(accepted, AcceptedCall(p))
    /\ Goto(p, "pue_unlock")
    /\ UNCHANGED << auditFile, lock, req, messages, returned, session, arg, res >>

\* A failing write that has already put the deactivation in place.
WriteUserLogFails_HalfDone(p) ==
    /\ pc[p] = "pue_write"
    /\ userFile' = FileOf(SubSeq(loc[p].pending, 1, Len(loc[p].pending) - 1))
    /\ loc' = [loc EXCEPT ![p].ok = FALSE, ![p].pending = << >>]
    /\ Goto(p, "pue_unlock")
    /\ UNCHANGED << auditFile, lock, req, messages, accepted, returned,
                    session, arg, res >>

\* atomic_write_dataframe raises (disk full, permissions) before the rename.
WriteUserLogFails(p) ==
    /\ pc[p] = "pue_write"
    /\ loc' = [loc EXCEPT ![p].ok = FALSE, ![p].pending = << >>]
    /\ Goto(p, "pue_unlock")
    /\ UNCHANGED << userFile, auditFile, lock, req, messages, accepted, returned,
                    session, arg, res >>

\* Leaving the with block: the lock is released; the call returns, or the
\* error reaches the except clause of the caller.
ReleaseUserLock(p) ==
    /\ pc[p] = "pue_unlock"
    /\ Unlock(p, "user")
    /\ IF loc[p].ok
       THEN /\ returned' = returned \cup {loc[p].entry_id}
            /\ loc' = [loc EXCEPT ![p].saved = TRUE, ![p].ok = FALSE]
            /\ session' = [session EXCEPT ![p].status_overrides =
                              {o \in @ : o[1] # req[p].client_id}
                                  \cup {<< req[p].client_id,
                                           compute_status_label(
                                               Get(loc[p].normalized, "review_date")) >>}]
            /\ Goto(p, "aud_check")
            /\ UNCHANGED << req, messages >>
       ELSE /\ Return(p, SaveFailed("OSError"))
            /\ UNCHANGED << returned, session >>
    /\ UNCHANGED << userFile, auditFile, accepted, arg, res >>

(***************************************************************************)
(* append_audit_entry, step by step                                        *)
(***************************************************************************)
\* ensure_audit_file, two steps: if audit_file.exists(): return, and else
\* atomic_write_dataframe(empty_df, audit_file). The caller has run
\* ensure_data_files in this run and no step removes a file, so the check
\* finds the file.
ensure_audit_file(p) ==
    /\ pc[p] \in {"aud_check", "aud_create"}
    /\ IF pc[p] = "aud_check"
       THEN /\ Goto(p, IF auditFile.exists THEN "aud_lock" ELSE "aud_create")
            /\ UNCHANGED auditFile
       ELSE /\ auditFile' = FileOf(<< >>)
            /\ Goto(p, "aud_lock")
    /\ UNCHANGED << userFile, lock, req, loc, messages, accepted, returned,
                    session, arg, res >>

AcquireAuditLock(p) ==
    /\ pc[p] = "aud_lock"
    /\ TryLock(p, "audit")
    /\ Goto(p, "aud_read")
    /\ UNCHANGED << userFile, auditFile, req, loc, messages, accepted, returned,
                    session, arg, res >>

TimeoutAuditLock(p) ==
    /\ pc[p] = "aud_lock"
    /\ LockTimedOut(p, "audit")
    /\ Return(p, SaveFailed("TimeoutError"))
    /\ UNCHANGED << userFile, auditFile, lock, accepted, returned,
                    session, arg, res >>

\* Lines 35-45: read the audit file and build the frame to write.
ReadAuditLog(p) ==
    /\ pc[p] = "aud_read"
    /\ loc' = [loc EXCEPT ![p].pending =
                 Append(ReadAudit(auditFile),
                        AuditRow(AuditId(loc[p].entry_id), loc[p].entry_id,
                                 req[p].client_id, UserName(p), iso_now,
                                 loc[p].old_values, loc[p].normalized))]
    /\ Goto(p, "aud_write")
    /\ UNCHANGED << userFile, auditFile, lock, req, messages, accepted, returned,
                    session, arg, res >>

WriteAuditLog(p) ==
    /\ pc[p] = "aud_write"
    /\ auditFile' = FileOf(loc[p].pending)
    /\ loc' = [loc EXCEPT ![p].ok = TRUE, ![p].pending = << >>]
    /\ Goto(p, "aud_unlock")
    /\ UNCHANGED << userFile, lock, req, messages, accepted, returned,
                    session, arg, res >>

WriteAuditLogFails(p) ==
    /\ pc[p] = "aud_write"
    /\ loc' = [loc EXCEPT ![p].ok = FALSE, ![p].pending = << >>]
    /\ Goto(p, "aud_unlock")
    /\ UNCHANGED << userFile, auditFile, lock, req, messages, accepted, returned,
                    session, arg, res >>

\* Leaving the with block: the lock is released; changed = True and the
\* success notification, or the except clause of the caller.
ReleaseAuditLock(p) ==
    /\ pc[p] = "aud_unlock"
    /\ Unlock(p, "audit")
    /\ Return(p, IF loc[p].ok THEN "success" ELSE SaveFailed("OSError"))
    /\ UNCHANGED << userFile, auditFile, accepted, returned, session, arg, res >>

(***************************************************************************)
(* Environment: a process is killed in mid-operation                       *)
(***************************************************************************)
\* The process stops where it is; a sentinel it created stays behind, and so
\* does the temporary file of a write it had begun (delete=False).
Crash(p) ==
    /\ pc[p] \notin {"start", "load", "ready", "done", "stopped", "crashed"}
    /\ Cardinality({q \in Procs : pc[q] = "crashed"}) < MaxCrashes
    /\ Goto(p, "crashed")
    /\ req' = [req EXCEPT ![p] = NoRequest]
    /\ loc' = [loc EXCEPT ![p] = [NoLocals EXCEPT !.pending = loc[p].pending]]
    /\ UNCHANGED << userFile, auditFile, lock, messages, accepted, returned,
                    session, arg, res >>

Next ==
    \E p \in Procs :
        \/ EnsureUserCheck(p) \/ EnsureUserWrite(p)
        \/ EnsureAuditCheck(p) \/ EnsureAuditWrite(p)
        \/ LoadUserInputs(p)
        \/ Rerun(p)
        \/ \E r \in Requests : RejectEdit(p, r) \/ AcceptEdit(p, r)
        \/ ValidateAgain(p)
        \/ AcquireUserLock(p) \/ TimeoutUserLock(p)
        \/ ReadUserLog(p) \/ WriteUserLog(p) \/ WriteUserLogFails(p) \/ ReleaseUserLock(p)
        \/ ensure_audit_file(p)
        \/ AcquireAuditLock(p) \/ TimeoutAuditLock(p)
        \/ ReadAuditLog(p) \/ WriteAuditLog(p) \/ WriteAuditLogFails(p)
        \/ ReleaseAuditLock(p)
        \/ Crash(p)

Spec == Init /\ [][Next]_vars

(***************************************************************************)
(* persist_user_edit on an edit log found on disk                          *)
(***************************************************************************)
\* A change_timestamp of an earlier day.
Stamp(day) ==
    isoformat(<< 2024, 6, day >>) \o << "T", "0", "9", ":", "3", "0", ":", "0", "0", "Z" >>

\* A line of the edit-log file as it stands on disk.
StoredRow(entry_id, client_id, comment, timestamp, is_active, previous_entry_id) ==
    [entry_id |-> entry_id, client_id |-> client_id,
     review_date |-> D_2023_05_06, layer_date |-> Empty, comment |-> comment,
     changed_by |-> << "u", "0" >>, change_timestamp |-> timestamp,
     is_active |-> is_active, previous_entry_id |-> previous_entry_id]

\* Edit logs a call may find: empty; one active entry; two active entries of
\* one client (a corrupt log), the one with the greater timestamp first and
\* with the comment NA; and is_active cells that are none of true, 1, yes.
InitialLogs ==
    { << >>,
      << StoredRow(EntryId(7), Client1, T_ok, Stamp(14), << "T", "r", "u", "e" >>, Empty) >>,
      << StoredRow(EntryId(7), Client1, T_NA, Stamp(14), << "y", "e", "s" >>, Empty),
         StoredRow(EntryId(8), Client1, Empty, Stamp(13), << "T", "R", "U", "E" >>, Empty) >>,
      << StoredRow(EntryId(7), Client1, T_ok, Stamp(12), << "m", "a", "y", "b", "e" >>, Empty),
         StoredRow(EntryId(8), Client2, Empty, Stamp(13), << "1" >>, Empty),
         StoredRow(EntryId(9), Client1, Empty, Stamp(14), << "F", "a", "l", "s", "e" >>,
                   EntryId(7)) >> }

\* Both files exist; every process is about to submit an edit request.
InitLog ==
    /\ userFile \in {FileOf(rows) : rows \in InitialLogs}
    /\ auditFile = FileOf(<< >>)
    /\ lock = [f \in {"user", "audit"} |-> NoProc]
    /\ pc = [p \in Procs |-> "ready"]
    /\ req = [p \in Procs |-> NoRequest]
    /\ loc = [p \in Procs |-> NoLocals]
    /\ messages = [p \in Procs |-> << >>]
    /\ accepted = << >>
    /\ returned = {}
    /\ session = [p \in Procs |-> NoSession]
    /\ arg = NoArg
    /\ res = NoRes

\* One request per process, handled without failures of the environment.
NextLog ==
    \E p \in Procs :
        \/ \E r \in Requests : AcceptEdit(p, r)
        \/ ValidateAgain(p)
        \/ AcquireUserLock(p)
        \/ ReadUserLog(p) \/ WriteUserLog(p) \/ ReleaseUserLock(p)
        \/ ensure_audit_file(p)
        \/ AcquireAuditLock(p)
        \/ ReadAuditLog(p) \/ WriteAuditLog(p) \/ ReleaseAuditLock(p)

SpecLog == InitLog /\ [][NextLog]_vars

(***************************************************************************)
(* file_lock under a fair scheduler                                        *)
(***************************************************************************)
\* The edit request of a process in this specification.
LockRequests == {Request(Client1, Payload(D_2024_01, Empty, Empty, T_ok))}

\* Both files exist and the edit log is empty.
InitLock == InitLog /\ userFile = FileOf(<< >>)

\* The steps a running process takes by itself once persist_user_edit has
\* been called: those on the sentinels and the files, and the two that
\* validate the values and leave the with block of the edit log. A retry of
\* the loop of file_lock (os.open fails, the timeout has not elapsed, sleep)
\* changes nothing and is a stuttering step.
FileSteps(p) ==
    \/ AcquireUserLock(p) \/ TimeoutUserLock(p)
    \/ ReadUserLog(p) \/ WriteUserLog(p) \/ WriteUserLogFails(p)
    \/ ensure_audit_file(p)
    \/ AcquireAuditLock(p) \/ TimeoutAuditLock(p)
    \/ ReadAuditLog(p) \/ WriteAuditLog(p) \/ WriteAuditLogFails(p)
    \/ ReleaseAuditLock(p)

OwnSteps(p) == ValidateAgain(p) \/ ReleaseUserLock(p)

\* One request per process; writes may fail and a process may be killed.
NextLock ==
    \E p \in Procs :
        \/ \E r \in LockRequests : AcceptEdit(p, r)
        \/ FileSteps(p)
        \/ OwnSteps(p)
        \/ Crash(p)

\* A process that is not killed keeps running: the loop of file_lock goes on
\* trying while time passes, so an attempt is not postponed for ever, and
\* the body of the with block runs to its end. The second condition is
\* WF_vars(OwnSteps(p)): these two steps wait for nothing, so they are
\* enabled exactly in their two positions.
SpecLock ==
    /\ InitLock /\ [][NextLock]_vars
    /\ \A p \in Procs :
          /\ WF_vars(FileSteps(p))
          /\ []<>(pc[p] \notin {"pue_validate", "pue_unlock"}) \/ []<><<OwnSteps(p)>>_vars

(***************************************************************************)
(* The catalog functions, called on the clients file of a data directory   *)
(***************************************************************************)
\* Rows of a clients file.
MaxRows == 3

SourceRow(client_id, tag, review_cawb, region, pod, mark) ==
    [client_id |-> client_id, tag |-> tag, region |-> region,
     region1 |-> region \o << "1" >>, region2 |-> region \o << "2" >>, pod |-> pod,
     CA |-> << "a" >> \o mark, RM |-> << "r" >> \o mark, review_cawb |-> review_cawb,
     SG |-> << "s" >> \o mark, layer |-> << "l" >> \o mark]

\* The rows a clients file is made of: two rows of client c1 with the same
\* date, rows without a date and with a text that is no date, an older date,
\* a tag with blanks around it and a tag that is not allowed.
SourceRows ==
    { SourceRow(Client1, << "G" >>, D_2024_01_05, << "E", "U" >>, << "A" >>, << "1" >>),
      SourceRow(Client1, << " ", "U", " " >>, D_2024_01_05, << "A", "S" >>, << "B" >>, << "2" >>),
      SourceRow(Client1, << "P" >>, Empty, << "N", "A" >>, << "C" >>, << "3" >>),
      SourceRow(Client2, << "G" >>, << "s", "o", "o", "n" >>, << "E", "U" >>, << "A" >>, << "4" >>),
      SourceRow(Client2, << "X" >>, D_2023_05_06, << "A", "S" >>, << "B" >>, << "5" >>),
      SourceRow(Client1, << "G" >>, D_2023_05_06, << "U", "S" >>, << "D" >>, << "6" >>) }

\* Clients files: absent, or up to MaxRows rows, with every required column
\* or without the column layer.
ClientsFiles ==
    LET contents == UNION {[1..n -> SourceRows] : n \in 0..MaxRows}
        without(rows, column) ==
            [i \in DOMAIN rows |-> [c \in DOMAIN rows[i] \ {column} |-> rows[i][c]]]
    IN  {AbsentFile} \cup {FileOf(rows) : rows \in contents}
                    \cup {FileOf(without(rows, "layer")) : rows \in contents}

\* The variables of the dashboard processes, which no call below touches.
processVars ==
    << userFile, auditFile, lock, pc, req, loc, messages, accepted, returned, session >>

NoProcesses ==
    /\ userFile = AbsentFile
    /\ auditFile = AbsentFile
    /\ lock = [f \in {"user", "audit"} |-> NoProc]
    /\ pc = [p \in Procs |-> "start"]
    /\ req = [p \in Procs |-> NoRequest]
    /\ loc = [p \in Procs |-> NoLocals]
    /\ messages = [p \in Procs |-> << >>]
    /\ accepted = << >>
    /\ returned = {}
    /\ session = [p \in Procs |-> NoSession]

InitCatalog ==
    /\ NoProcesses
    /\ arg \in {[fn |-> "catalog", file |-> f, log |-> FileOf(l)] :
                    f \in ClientsFiles, l \in InitialLogs}
    /\ res = NoRes

Returned(fn, error, value) == [fn |-> fn, error |-> error, value |-> value]

\* get_latest_clients, first half.
LoadClients ==
    /\ arg.fn = "catalog" /\ res.fn = "none"
    /\ res' = Returned("load_clients", load_clients(arg.file).error,
                       load_clients(arg.file).rows)
    /\ UNCHANGED << processVars, arg >>

\* get_latest_clients, second half.
Deduplicate ==
    /\ res.fn = "load_clients" /\ res.error = ""
    /\ res' = Returned("deduplicate_latest_clients", "",
                       deduplicate_latest_clients(res.value))
    /\ UNCHANGED << processVars, arg >>

\* Lines 243-245 of main: the merged frame, or the exception raised on the way.
MergeWith(clients_df, active_inputs_df) ==
    IF active_inputs_df.error # ""
    THEN Returned("merge_clients_with_user_inputs", active_inputs_df.error, << >>)
    ELSE Returned("merge_clients_with_user_inputs", "",
                  merge_clients_with_user_inputs(clients_df, active_inputs_df.rows))

Merge ==
    /\ res.fn = "deduplicate_latest_clients"
    /\ res' = MergeWith(res.value, get_active_user_inputs(load_user_inputs(arg.log)))
    /\ UNCHANGED << processVars, arg >>

NextCatalog == LoadClients \/ Deduplicate \/ Merge

SpecCatalog == InitCatalog /\ [][NextCatalog]_vars

(***************************************************************************)
(* The date functions, called on one text                                  *)
(***************************************************************************)
\* Texts a date cell may hold: empty and blank, no date, the days around the
\* overdue cutoff, around today and around the minimum date, a day that does
\* not exist, and the shapes parse_date knows, with and without blanks.
DateTexts ==
    { Empty, << " ", " " >>, D_junk, D_2024_01, D_2024_06_16,
      isoformat(<< 2023, 6, 14 >>), isoformat(<< 2023, 6, 15 >>),
      isoformat(<< 2023, 6, 16 >>), isoformat(Today),
      isoformat(MIN_ALLOWED_DATE), isoformat(<< 2021, 12, 31 >>),
      isoformat(<< 2023, 2, 30 >>),
      << " " >> \o isoformat(<< 2023, 6, 15 >>) \o << " " >>,
      << "2", "0", "2", "3" >>, << "2", "0", "2", "1" >>, << "6" >>,
      << "2", "0", "2", "3", "-", "1", "3" >>,
      << "2", "0", "2", "3", "-", "6", "-", "5" >>,
      << "2", "0", "2", "3", "/", "0", "6", "/", "1", "6" >>,
      << "0", "6", "/", "1", "6", "/", "2", "0", "2", "3" >>,
      << "0", "6", "-", "1", "6", "-", "2", "0", "2", "3" >>,
      isoformat(<< 2023, 6, 16 >>) \o << "T", "1", "0", ":", "3", "0" >> }

InitDates ==
    /\ NoProcesses
    /\ arg \in {[fn |-> "date", value |-> v] : v \in DateTexts}
    /\ res = NoRes

ParseDate ==
    /\ arg.fn = "date" /\ res.fn = "none"
    /\ res' = Returned("parse_date", "", parse_date(arg.value))
    /\ UNCHANGED << processVars, arg >>

ValidateOptionalDate(field_name, strict_iso) ==
    /\ arg.fn = "date" /\ res.fn = "none"
    /\ res' = [fn |-> "validate_optional_date", field_name |-> field_name,
               strict_iso |-> strict_iso,
               value |-> validate_optional_date(arg.value, field_name, strict_iso)]
    /\ UNCHANGED << processVars, arg >>

ComputeStatus ==
    /\ arg.fn = "date" /\ res.fn = "none"
    /\ res' = Returned("_compute_status", "", _compute_status(arg.value))
    /\ UNCHANGED << processVars, arg >>

\* validate_edit_payload with the text as test_date, review_date being empty
\* or the same text, layer_date and comment empty.
ValidateEditPayload(review_date) ==
    /\ arg.fn = "date" /\ res.fn = "none"
    /\ res' = [fn |-> "validate_edit_payload", review_date |-> review_date,
               test_date |-> arg.value,
               value |-> validate_edit_payload(review_date, Empty, arg.value, Empty)]
    /\ UNCHANGED << processVars, arg >>

\* The validation persist_user_edit repeats (data_loader.py, lines 158-165)
\* on a value its caller has validated: the same validator of the same field
\* on the normalized text.
Revalidate ==
    /\ res.fn = "validate_optional_date" /\ res.value.valid
    /\ res' = [fn |-> "revalidated", field_name |-> res.field_name,
               strict_iso |-> res.strict_iso, first |-> res.value.value,
               value |-> validate_optional_date(res.value.value, res.field_name,
                                                res.strict_iso)]
    /\ UNCHANGED << processVars, arg >>

\* The calls of validate_edit_payload: review_date and layer_date in any of
\* the shapes, test_date strictly as YYYY-MM-DD.
NextDates ==
    \/ ParseDate
    \/ \E review_date \in {Empty, arg.value} : ValidateEditPayload(review_date)
    \/ \E field_name \in {"review_date", "layer_date"} :
          ValidateOptionalDate(field_name, FALSE)
    \/ ValidateOptionalDate("test_date", TRUE)
    \/ ComputeStatus
    \/ Revalidate

SpecDates == InitDates /\ [][NextDates]_vars

(***************************************************************************)
(* Properties                                                              *)
(***************************************************************************)
EditLog == load_user_inputs(userFile)

EntryIdsInLog == {userFile.rows[i]["entry_id"] : i \in DOMAIN userFile.rows}

ClientIds == {r.client_id : r \in Requests}

RowsOf(client_id) == {i \in DOMAIN EditLog : EditLog[i]["client_id"] = client_id}

ActiveRowsOf(client_id) == {i \in RowsOf(client_id) : EditLog[i]["is_active"]}

AcceptedFor(client_id) == {i \in DOMAIN accepted : accepted[i].client_id = client_id}

\* The entry id of the most recent accepted call for the client, in the
\* order in which the calls held the lock.
LastAcceptedId(client_id) ==
    LET calls == AcceptedFor(client_id)
    IN  IF calls = {} THEN Empty
        ELSE accepted[CHOOSE i \in calls : \A j \in calls : j <= i].entry_id

\* C1: in every committed state of the edit log, every client_id has at most
\* one entry with is_active = true.
C1_AtMostOneActive ==
    \A c \in ClientIds : Cardinality(ActiveRowsOf(c)) <= 1

\* C1 witness: a client has two entries in the log, one superseded and one
\* active.
C1_Witness ==
    \E c \in ClientIds :
        Cardinality(RowsOf(c)) >= 2 /\ Cardinality(ActiveRowsOf(c)) = 1

\* C2: an entry of the log is active exactly if it is the entry created by
\* the most recent accepted persist_user_edit call for its client.
C2_ActiveIsMostRecent ==
    \A i \in DOMAIN EditLog :
        EditLog[i]["is_active"]
            <=> EditLog[i]["entry_id"] = LastAcceptedId(EditLog[i]["client_id"])

\* C2 witness: after two accepted calls for one client, made by two
\* processes, the entry of the later call is the active one and the entry of
\* the earlier call is in the log, inactive.
C2_Witness ==
    \E c \in ClientIds :
        /\ Cardinality(AcceptedFor(c)) >= 2
        /\ \E i \in ActiveRowsOf(c), j \in RowsOf(c) :
              /\ EditLog[i]["entry_id"] = LastAcceptedId(c)
              /\ ~EditLog[j]["is_active"]
              /\ EditLog[i]["changed_by"] # EditLog[j]["changed_by"]

\* What load_user_inputs + get_active_user_inputs yield for the client from
\* the file: the four values, if the read succeeds and has a row for it.
ReadsBack(file, client_id, values) ==
    LET frame == get_active_user_inputs(load_user_inputs(file))
    IN  /\ frame.error = ""
        /\ \E row \in frame.rows :
              /\ row["client_id"] = client_id
              /\ \A k \in {"review_date", "layer_date", "test_date", "comment"} :
                    row[k] = values[k]

\* The step in which persist_user_edit of process p commits its write.
Commits(p) == pc[p] = "pue_write" /\ pc'[p] = "pue_unlock" /\ loc'[p].ok

\* C3 (as claimed): right after a successful persist_user_edit, reading the
\* active edit of the client from the file yields the normalized values that
\* were passed in, in review_date, layer_date, test_date and comment.
C3_ReadBackAfterPersist ==
    [][\A p \in Procs :
          Commits(p) => ReadsBack(userFile', req[p].client_id, loc[p].normalized)]_vars

\* C4 (as claimed): the entry of every persist_user_edit call that has
\* returned is present in the edit log in every later state.
C4_NoAcceptedEditLost ==
    \A id \in returned : id \in EntryIdsInLog

\* C5 (as claimed): of the entries created for a client, the first one in
\* lock order has previous_entry_id = "", every other one names the entry
\* created just before it for that client, and no two share a
\* previous_entry_id.
C5_ChainNeverForks ==
    \A c \in ClientIds :
        \A i \in AcceptedFor(c) :
            LET before == {j \in AcceptedFor(c) : j < i}
            IN  /\ before = {} => accepted[i].previous_entry_id = Empty
                /\ before # {} =>
                      accepted[i].previous_entry_id =
                          accepted[CHOOSE j \in before : \A k \in before : k <= j].entry_id
                /\ \A j \in before :
                      accepted[j].previous_entry_id # accepted[i].previous_entry_id

IsPrefix(a, b) == Len(a) <= Len(b) /\ \A i \in DOMAIN a : a[i] = b[i]

\* C6 (as claimed): the audit file only grows by appending: every step keeps
\* the rows it holds, unchanged and in place.
C6_AuditAppendOnly ==
    [][auditFile.exists =>
          auditFile'.exists /\ IsPrefix(auditFile.rows, auditFile'.rows)]_vars

AuditRowsOf(entry_id) ==
    {i \in DOMAIN auditFile.rows : auditFile.rows[i]["entry_id"] = entry_id}

\* C7 (as claimed): when the handling of a request whose persist_user_edit
\* succeeded has finished, the audit file holds exactly one row for its entry.
C7_AuditedExactlyOnce ==
    \A p \in Procs :
        pc[p] = "done" /\ loc[p].saved => Cardinality(AuditRowsOf(loc[p].entry_id)) = 1

\* C8 (as claimed): the entry_id of every audit row is the entry_id of an
\* entry present in the edit log.
C8_AuditRowsHaveEntries ==
    \A i \in DOMAIN auditFile.rows : auditFile.rows[i]["entry_id"] \in EntryIdsInLog

\* C9 (as claimed): the audit rows of two edits of one client are in the
\* order of their entries in the edit log.
C9_AuditOrderIsLogOrder ==
    \A i \in DOMAIN userFile.rows, j \in DOMAIN userFile.rows :
        i < j /\ userFile.rows[i]["client_id"] = userFile.rows[j]["client_id"] =>
            \A k \in AuditRowsOf(userFile.rows[i]["entry_id"]),
               l \in AuditRowsOf(userFile.rows[j]["entry_id"]) : k < l

\* A date field that fails validation as C10 lists it: not blank, and
\* unparseable, before the minimum date or after today.
FailsDateRules(value) ==
    /\ normalize_text(value) # Empty
    /\ \/ parse_date(value) = None
       \/ DateLess(parse_date(value), MIN_ALLOWED_DATE)
       \/ DateLess(Today, parse_date(value))

HasBadDate(new_values) ==
    \E k \in {"review_date", "layer_date", "test_date"} : FailsDateRules(Get(new_values, k))

\* C10: the steps that validate a submitted request (in the handler, and
\* again at the head of persist_user_edit) change neither file and create no
\* sentinel, and only a payload without a failing date is passed on to
\* persist_user_edit and to its file_lock; any other request ends in the
\* handler.
C10_BadPayloadRejectedBeforeLock ==
    [][\A p \in Procs :
          /\ pc[p] = "ready" /\ pc'[p] \notin {"ready", "start"} =>
                /\ userFile' = userFile /\ auditFile' = auditFile /\ lock' = lock
                /\ pc'[p] \in {"done", "pue_validate"}
                /\ pc'[p] = "pue_validate" => ~HasBadDate(req'[p].new_values)
          /\ pc[p] = "pue_validate" /\ pc'[p] # "pue_validate" =>
                /\ userFile' = userFile /\ auditFile' = auditFile /\ lock' = lock
                /\ pc'[p] = "pue_lock" => ~HasBadDate(req[p].new_values)]_vars

\* C10 witness: a request was rejected with a validation message while the
\* files exist and another process is inside persist_user_edit.
C10_Witness ==
    \E p \in Procs, q \in Procs :
        /\ pc[p] = "done" /\ messages[p] = << "validation" >>
        /\ userFile.exists /\ auditFile.exists
        /\ lock["user"] = q /\ q # p

(***************************************************************************)
(* file_lock                                                               *)
(***************************************************************************)
\* The positions of a process inside the body of file_lock for file f.
Body(f) ==
    IF f = "user" THEN {"pue_read", "pue_write", "pue_unlock"}
    ELSE {"aud_read", "aud_write", "aud_unlock"}

Inside(f) == {p \in Procs : pc[p] \in Body(f)}

\* C11: for each target file, at most one process is inside the body of
\* file_lock, and it is the one whose sentinel exists; so no two
\* persist_user_edit calls overlap between reading the log and replacing it.
C11_MutualExclusion ==
    \A f \in {"user", "audit"} :
        /\ Cardinality(Inside(f)) <= 1
        /\ \A p \in Inside(f) : lock[f] = p

\* C11 witness: a process is between reading and replacing the edit log
\* while the other one waits for the same lock.
C11_Witness ==
    \E p \in Procs, q \in Procs :
        pc[p] = "pue_write" /\ lock["user"] = p /\ pc[q] = "pue_lock"

\* C12: a sentinel that exists belongs to a process inside the body of
\* file_lock (or to one that was killed there): leaving the block, normally
\* or by an exception, removes it; and a timed-out acquisition changes no
\* sentinel.
C12_ReleasedOnEveryExit ==
    [][/\ \A f \in {"user", "audit"} :
              lock'[f] # NoProc => pc'[lock'[f]] \in Body(f) \cup {"crashed"}
       /\ \A p \in Procs :
              pc[p] \in {"pue_lock", "aud_lock"} /\ pc'[p] = "done" => lock' = lock]_vars

\* C12 witness: a write inside the block failed, the block was left by the
\* exception, and the sentinel is gone.
C12_Witness ==
    \E p \in Procs :
        /\ pc[p] = "done" /\ messages[p] = << SaveFailed("OSError") >>
        /\ ~loc[p].saved
        /\ lock["user"] = NoProc /\ \A q \in Procs : pc[q] # "crashed"

\* C13: the steps of persist_user_edit and append_audit_entry outside the
\* body of file_lock change neither file; an acquisition that times out ends
\* the call with a TimeoutError, no entry added or deactivated.
C13_TimeoutWritesNothing ==
    [][\A p \in Procs :
          /\ pc[p] \in {"pue_validate", "pue_lock", "aud_check", "aud_lock"}
                /\ pc'[p] # pc[p] =>
                    userFile' = userFile /\ auditFile' = auditFile /\ accepted' = accepted
          /\ pc[p] \in {"pue_lock", "aud_lock"} /\ pc'[p] = "done" =>
                messages'[p] = Append(messages[p], SaveFailed("TimeoutError"))]_vars

\* C13 witness: persist_user_edit of one process has timed out while the
\* other one holds the edit-log lock.
C13_Witness ==
    \E p \in Procs, q \in Procs :
        /\ pc[p] = "done" /\ messages[p] = << SaveFailed("TimeoutError") >>
        /\ ~loc[p].saved
        /\ lock["user"] = q /\ q # p

(***************************************************************************)
(* atomic_write_dataframe                                                  *)
(***************************************************************************)
\* The temporary file a process has written and not yet renamed.
TempFile(p) == [exists |-> TRUE, rows |-> loc[p].pending]

\* C14: whenever the content at a target path changes, the new content is
\* the complete temporary file of the writing process; a process that stops
\* changes no target, so a write cut short between the creation of the
\* temporary file and the rename leaves the previous content.
C14_AtomicWrite ==
    [][/\ userFile' # userFile =>
              \E p \in Procs :
                  /\ pc[p] \in {"pue_write", "ens_user_write"}
                  /\ userFile' = TempFile(p)
       /\ auditFile' # auditFile =>
              \E p \in Procs :
                  /\ pc[p] \in {"aud_write", "aud_create", "ens_audit_write"}
                  /\ auditFile' = TempFile(p)
       /\ \A p \in Procs :
              pc'[p] = "crashed" /\ pc[p] # "crashed" =>
                  userFile' = userFile /\ auditFile' = auditFile]_vars

\* C14 witness: a process was killed after it had written its temporary
\* file and before the rename; the edit log holds the previous content.
C14_Witness ==
    \E p \in Procs :
        /\ pc[p] = "crashed" /\ lock["user"] = p
        /\ loc[p].pending # << >>
        /\ userFile.rows # << >> /\ userFile.rows # loc[p].pending

(***************************************************************************)
(* Readers of the edit log                                                 *)
(***************************************************************************)
\* C15 (as claimed): what load_user_inputs reads without the lock is a
\* committed log state: the entries of the accepted calls up to some point,
\* in their order, at most one of them active per client, and the last entry
\* of every client in it active (no deactivation without the new entry).
C15_ReaderSeesCommittedPrefix ==
    /\ Len(EditLog) <= Len(accepted)
    /\ \A i \in DOMAIN EditLog : EditLog[i]["entry_id"] = accepted[i].entry_id
    /\ \A c \in ClientIds :
          /\ Cardinality(ActiveRowsOf(c)) <= 1
          /\ RowsOf(c) # {} =>
                ActiveRowsOf(c) = {CHOOSE i \in RowsOf(c) : \A j \in RowsOf(c) : j <= i}

(***************************************************************************)
(* Failure of the write inside persist_user_edit                           *)
(***************************************************************************)
\* C16: a write of the edit log that fails under the lock changes neither
\* the file nor the list of committed entries; leaving the block then
\* removes the sentinel, so that the lock is free for any process, and the
\* error reaches the caller, no entry id returned.
C16_FailedWriteLeavesLog ==
    [][\A p \in Procs :
          /\ pc[p] = "pue_write" /\ pc'[p] = "pue_unlock" /\ ~loc'[p].ok =>
                userFile' = userFile /\ accepted' = accepted
          /\ pc[p] = "pue_unlock" /\ ~loc[p].ok
                /\ pc'[p] \notin {"pue_unlock", "crashed"} =>
                    /\ pc'[p] = "done"
                    /\ lock'["user"] = NoProc
                    /\ messages'[p] = Append(messages[p], SaveFailed("OSError"))
                    /\ userFile' = userFile /\ returned' = returned]_vars

\* C16 witness: the write of a process failed on a log that holds an active
\* entry of the other process; the entry is still there and active, the
\* error was reported and the lock is free.
C16_Witness ==
    \E p \in Procs :
        /\ pc[p] = "done" /\ messages[p] = << SaveFailed("OSError") >>
        /\ ~loc[p].saved
        /\ Len(EditLog) = 1 /\ EditLog[1]["is_active"]
        /\ EditLog[1]["changed_by"] # UserName(p)
        /\ lock["user"] = NoProc

(***************************************************************************)
(* The transition of the edit log made by persist_user_edit                *)
(***************************************************************************)
FalseText == << "F", "a", "l", "s", "e" >>

\* C17: in every transition of the edit-log file made by persist_user_edit,
\* the entries that were there stay in place, none that was not active (the
\* stored cell being anything but true, 1 or yes) is active afterwards, and
\* the only entry that is newly active is the appended one.
C17_ActiveFlagMonotonic ==
    [][userFile' # userFile =>
          LET old == load_user_inputs(userFile)
              new == load_user_inputs(userFile')
          IN  /\ Len(new) = Len(old) + 1
              /\ new[Len(new)]["is_active"]
              /\ \A i \in DOMAIN old :
                    /\ new[i]["entry_id"] = old[i]["entry_id"]
                    /\ ~old[i]["is_active"] =>
                          ~new[i]["is_active"] /\ userFile'.rows[i]["is_active"] = FalseText]_vars

\* C17 witness: a log whose first entry had the is_active cell "maybe" has
\* been rewritten by persist_user_edit for the client of that entry.
C17_Witness ==
    /\ Len(userFile.rows) >= 4
    /\ userFile.rows[1]["entry_id"] = EntryId(7)
    /\ userFile.rows[1]["is_active"] = FalseText
    /\ userFile.rows[4]["client_id"] = userFile.rows[1]["client_id"]

\* The values of the four edit fields that a stored entry carries.
StoredValues(row) ==
    [k \in {"review_date", "layer_date", "test_date", "comment"} |->
        IF k \in DOMAIN row THEN row[k] ELSE Empty]

\* C19: when persist_user_edit commits an edit for a client that has more
\* than one active entry in the log, all of them are inactive afterwards, the
\* appended entry is the only active one of the client, and the old values
\* and previous_entry_id are those of the formerly active entry with the
\* greatest change_timestamp.
C19_CorruptLogRecovery ==
    [][\A p \in Procs :
          pc[p] = "pue_write" /\ userFile' # userFile =>
              LET old == load_user_inputs(userFile)
                  new == load_user_inputs(userFile')
                  c == req[p].client_id
                  act == {i \in DOMAIN old : old[i]["client_id"] = c /\ old[i]["is_active"]}
              IN  Cardinality(act) > 1 =>
                    /\ \A i \in act : ~new[i]["is_active"]
                    /\ {i \in DOMAIN new : new[i]["client_id"] = c /\ new[i]["is_active"]}
                          = {Len(new)}
                    /\ \E k \in act :
                          /\ \A j \in act \ {k} :
                                TextLess(old[j]["change_timestamp"], old[k]["change_timestamp"])
                          /\ new[Len(new)]["previous_entry_id"] = old[k]["entry_id"]
                          /\ loc[p].old_values = StoredValues(userFile.rows[k])]_vars

\* The columns persist_user_edit never assigns in the entries it has read.
KeptColumns ==
    {"entry_id", "client_id", "review_date", "layer_date", "test_date", "comment",
     "changed_by", "change_timestamp", "previous_entry_id"}

\* C18: a committing persist_user_edit for client c appends one entry; every
\* entry that was in the file keeps its position and its cells in all columns
\* but is_active, and the entries of other clients keep their is_active too.
C18_FrameOfPersist ==
    [][\A p \in Procs :
          pc[p] = "pue_write" /\ pc'[p] = "pue_unlock" /\ loc'[p].ok =>
              /\ Len(userFile'.rows) = Len(userFile.rows) + 1
              /\ \A i \in DOMAIN userFile.rows :
                    /\ \A k \in KeptColumns :
                          Get(userFile'.rows[i], k) = Get(userFile.rows[i], k)
                    /\ userFile.rows[i]["client_id"] # req[p].client_id =>
                          load_user_inputs(userFile')[i]["is_active"]
                              = load_user_inputs(userFile)[i]["is_active"]]_vars

\* C20: the old values of a committing persist_user_edit are the normalized
\* new values of the last accepted edit of the same client, in all four
\* fields; for the first edit of a client they are all empty.
C20_OldValuesAreSuperseded ==
    [][\A p \in Procs :
          pc[p] = "pue_write" /\ pc'[p] = "pue_unlock" /\ loc'[p].ok =>
              LET c == req[p].client_id
                  earlier == {i \in DOMAIN accepted : accepted[i].client_id = c}
              IN  IF earlier # {}
                  THEN LET last == CHOOSE k \in earlier : \A j \in earlier : j <= k
                       IN  loc[p].old_values = StoredValues(accepted[last].new_values)
                  ELSE (\A i \in DOMAIN userFile.rows : userFile.rows[i]["client_id"] # c)
                           => loc[p].old_values = NoValues]_vars

(***************************************************************************)
(* The two lock scopes                                                     *)
(***************************************************************************)
\* C21: the lock of the edit log and the lock of the audit file are separate
\* sentinels. A process waiting for one of them can take it whenever that
\* sentinel is absent, whoever holds the other; no process holds both, and
\* none waits for one while holding the other, so no cycle of waiting exists.
C21_SeparateLockScopes ==
    \A p \in Procs :
        /\ pc[p] = "aud_lock" /\ lock["audit"] = NoProc => ENABLED AcquireAuditLock(p)
        /\ pc[p] = "pue_lock" /\ lock["user"] = NoProc => ENABLED AcquireUserLock(p)
        /\ ~(lock["user"] = p /\ lock["audit"] = p)
        /\ pc[p] = "aud_lock" => lock["user"] # p
        /\ pc[p] = "pue_lock" => lock["audit"] # p

\* C21 witness: both sentinels exist at once, held by different processes:
\* one has written its audit row under the audit lock, the other has just
\* taken the lock of the edit log.
C21_Witness ==
    \E p, q \in Procs :
        /\ p # q
        /\ lock["user"] = q /\ pc[q] = "pue_read"
        /\ lock["audit"] = p /\ pc[p] = "aud_unlock" /\ loc[p].ok

(***************************************************************************)
(* The rendered view                                                       *)
(***************************************************************************)
\* The status that follows from the edit-log file for a client: that of the
\* review_date of its active entry (the latest one), MISSING without one.
StatusInFile(file, client_id) ==
    LET df == load_user_inputs(file)
        active_mask == ActiveMask(df, client_id)
    IN  IF active_mask = {} THEN STATUS_LABELS["MISSING"]
        ELSE compute_status_label(df[LastByTimestamp(df, active_mask)]["review_date"])

\* C22: the status a run shows for a client is the status that follows from
\* the edit-log file the run has read; status_overrides of the session never
\* makes it differ.
C22_ShownStatusIsFromFile ==
    [][\A p \in Procs :
          pc[p] = "load" /\ pc'[p] = "ready" =>
              \A c \in Catalog : session'[p].shown[c] = StatusInFile(userFile, c)]_vars

(***************************************************************************)
(* The deduplicated catalog                                                *)
(***************************************************************************)
\* Row k of df is the one the rule selects among the rows idx of a client:
\* of the rows with a date the one with the greatest date and, of those, the
\* greatest _row_order; without a dated row the greatest _row_order.
IsLatest(df, idx, k) ==
    LET dated == {i \in idx : to_datetime(df[i]["review_cawb"]) # None}
    IN  IF dated = {}
        THEN k \in idx /\ \A j \in idx \ {k} : df[j]["_row_order"] < df[k]["_row_order"]
        ELSE /\ k \in dated
             /\ \A j \in dated \ {k} :
                   \/ DateLess(to_datetime(df[j]["review_cawb"]),
                               to_datetime(df[k]["review_cawb"]))
                   \/ /\ to_datetime(df[j]["review_cawb"]) = to_datetime(df[k]["review_cawb"])
                      /\ df[j]["_row_order"] < df[k]["_row_order"]

\* C23: for every client of its input, deduplicate_latest_clients returns the
\* tag, CA, RM, SG and layer (and the _row_order) of the row with the maximum
\* parseable review_cawb, the largest _row_order among equal dates, or of the
\* row with the largest _row_order when the client has no parseable date.
C23_LatestRowSelected ==
    [][res.fn = "load_clients" /\ res'.fn = "deduplicate_latest_clients" =>
          \A i \in DOMAIN res.value :
              \E o \in DOMAIN res'.value, k \in DOMAIN res.value :
                  /\ res'.value[o]["client_id"] = res.value[i]["client_id"]
                  /\ IsLatest(res.value, Group(res.value, res.value[i]["client_id"]), k)
                  /\ \A c \in {"tag", "CA", "RM", "SG", "layer", "_row_order"} :
                        res'.value[o][c] = res.value[k][c]]_vars

\* C23 witness: of three rows of one client, the first two share the maximum
\* date and the third has none; the second one is returned.
C23_Witness ==
    /\ res.fn = "deduplicate_latest_clients"
    /\ Len(arg.file.rows) = 3
    /\ \A i \in 1..3 : arg.file.rows[i]["client_id"] = Client1
    /\ arg.file.rows[1]["review_cawb"] = D_2024_01_05
    /\ arg.file.rows[2]["review_cawb"] = D_2024_01_05
    /\ arg.file.rows[3]["review_cawb"] = Empty
    /\ Len(res.value) = 1
    /\ res.value[1]["_row_order"] = 1
    /\ res.value[1]["CA"] = arg.file.rows[2]["CA"]

\* C24: in the output of deduplicate_latest_clients the region, region1,
\* region2 and pod of every client are those of its last row in the source,
\* whichever row was selected.
C24_DisplayFieldsFromLastRow ==
    [][res.fn = "load_clients" /\ res'.fn = "deduplicate_latest_clients" =>
          \A i \in DOMAIN res.value :
              \E o \in DOMAIN res'.value :
                  /\ res'.value[o]["client_id"] = res.value[i]["client_id"]
                  /\ \A c \in {"region", "region1", "region2", "pod"} :
                        res'.value[o][c] =
                            res.value[RowOrderMax(res.value,
                                                  Group(res.value, res.value[i]["client_id"]))][c]]_vars

\* C25: the output of deduplicate_latest_clients has one row for every
\* client_id of its input and no other row, in ascending client_id order.
C25_OneRowPerClientSorted ==
    [][res.fn = "load_clients" /\ res'.fn = "deduplicate_latest_clients" =>
          /\ {res'.value[o]["client_id"] : o \in DOMAIN res'.value}
                = {res.value[i]["client_id"] : i \in DOMAIN res.value}
          /\ \A a, b \in DOMAIN res'.value :
                a < b => TextLess(res'.value[a]["client_id"], res'.value[b]["client_id"])]_vars

\* C25 witness: a source that names client c2 before client c1, each several
\* times or once, has been deduplicated to the rows of c1 and c2, in this order.
C25_Witness ==
    /\ res.fn = "deduplicate_latest_clients"
    /\ Len(arg.file.rows) = 3
    /\ arg.file.rows[1]["client_id"] = Client2 /\ AllowedTag(arg.file.rows[1])
    /\ arg.file.rows[2]["client_id"] = Client1 /\ AllowedTag(arg.file.rows[2])
    /\ arg.file.rows[3]["client_id"] = Client1 /\ AllowedTag(arg.file.rows[3])
    /\ Len(res.value) = 2
    /\ res.value[1]["client_id"] = Client1 /\ res.value[2]["client_id"] = Client2

\* C26: load_clients returns exactly the source rows whose trimmed tag is G,
\* U or P, in their order, each with its position in the source (from 0) as
\* _row_order and with "" in a required column the source does not have.
C26_AllowedRowsWithPosition ==
    [][res.fn = "none" /\ res'.fn = "load_clients" /\ arg.file.exists =>
          LET source == arg.file.rows
              kept == {i \in DOMAIN source : normalize_text(source[i]["tag"]) \in ALLOWED_TAGS}
          IN  /\ {res'.value[a]["_row_order"] + 1 : a \in DOMAIN res'.value} = kept
              /\ \A a, b \in DOMAIN res'.value :
                    a < b => res'.value[a]["_row_order"] < res'.value[b]["_row_order"]
              /\ \A a \in DOMAIN res'.value :
                    \A c \in Range(REQUIRED_CLIENT_COLUMNS) :
                        res'.value[a][c] =
                            IF c \notin DOMAIN source[res'.value[a]["_row_order"] + 1] THEN Empty
                            ELSE IF c = "tag"
                            THEN normalize_text(source[res'.value[a]["_row_order"] + 1][c])
                            ELSE source[res'.value[a]["_row_order"] + 1][c]]_vars

(***************************************************************************)
(* Status and date rules                                                   *)
(***************************************************************************)
\* C27: _compute_status returns MISSING for an empty or unparseable review
\* date, OVERDUE for a date on or before the day 12 months before today, and
\* ACTIVE for every later date; exactly one of the three.
C27_StatusByCutoff ==
    res.fn = "_compute_status" =>
        LET d == parse_date(arg.value)
            cutoff == << Today[1] - 1, Today[2], Today[3] >>
        IN  /\ res.value \in {"MISSING", "OVERDUE", "ACTIVE"}
            /\ res.value = "MISSING" <=> d = None
            /\ res.value = "OVERDUE" <=> d # None /\ (d = cutoff \/ DateLess(d, cutoff))
            /\ res.value = "ACTIVE" <=> d # None /\ DateLess(cutoff, d)

\* C27 witness: the day exactly 12 months before today is OVERDUE.
C27_Witness ==
    /\ res.fn = "_compute_status"
    /\ arg.value = isoformat(<< Today[1] - 1, Today[2], Today[3] >>)
    /\ res.value = "OVERDUE"

\* C29: validate_optional_date accepts an empty or blank value as "", and a
\* non-empty one only if its date d has 2022-01-01 <= d <= today; a date
\* before the minimum or after today is rejected with an error that names
\* the field, and the two bounds themselves are accepted.
C29_DateWithinBounds ==
    res.fn = "validate_optional_date" =>
        LET raw == normalize_text(arg.value)
            d == parse_date(arg.value)
            lowest == << 2022, 1, 1 >>
        IN  IF raw = Empty THEN res.value.valid /\ res.value.value = Empty
            ELSE /\ res.value.valid =>
                       d # None /\ ~DateLess(d, lowest) /\ ~DateLess(Today, d)
                 /\ d # None /\ (DateLess(d, lowest) \/ DateLess(Today, d)) =>
                       ~res.value.valid /\ res.value.error[1] = res.field_name
                 /\ d \in {lowest, Today} /\ StrictIsoDate(raw) => res.value.valid

\* C29 witness: today's date has been accepted for test_date.
C29_Witness ==
    /\ res.fn = "validate_optional_date"
    /\ res.field_name = "test_date"
    /\ arg.value = isoformat(Today)
    /\ res.value.valid /\ res.value.value = isoformat(Today)

\* The text is a year, a year and a month, or a year, a month and a day,
\* joined by hyphens.
HasDateShape(raw) ==
    LET fields == Split(raw, "-")
    IN  /\ Len(fields) \in 1..3
        /\ Len(fields[1]) = 4 /\ IsDigits(fields[1])
        /\ \A i \in 2..Len(fields) : Len(fields[i]) \in {1, 2} /\ IsDigits(fields[i])

\* C30: a non-empty review_date or layer_date is accepted only in one of the
\* shapes YYYY-MM-DD, YYYY-MM and YYYY.
C30_OnlyThreeShapes ==
    res.fn = "validate_optional_date" /\ ~res.strict_iso
        /\ normalize_text(arg.value) # Empty /\ res.value.valid
            => HasDateShape(normalize_text(arg.value))

\* C28: the merge of the deduplicated catalog with the active inputs of the
\* edit log has exactly the rows of the catalog, in its order; a client with
\* active entries carries the entry with the latest change_timestamp, and a
\* client without one carries empty edit fields.
C28_OneMergedRowPerClient ==
    [][res.fn = "deduplicate_latest_clients"
           /\ res'.fn = "merge_clients_with_user_inputs" =>
          LET df == load_user_inputs(arg.log)
          IN  /\ res'.error = ""
              /\ Len(res'.value) = Len(res.value)
              /\ \A i \in DOMAIN res.value :
                    LET active_mask == ActiveMask(df, res.value[i]["client_id"])
                    IN  /\ res'.value[i]["client_id"] = res.value[i]["client_id"]
                        /\ res'.value[i]["active_entry_id"] =
                              IF active_mask = {} THEN Empty
                              ELSE df[LastByTimestamp(df, active_mask)]["entry_id"]
                        /\ active_mask = {} =>
                              \A c \in {"review_date", "layer_date", "test_date", "comment"} :
                                  res'.value[i][c] = Empty]_vars

\* The text is four digits, a hyphen, two digits, a hyphen and two digits.
IsExactDateForm(raw) ==
    LET fields == Split(raw, "-")
    IN  /\ Len(raw) = 10 /\ Len(fields) = 3
        /\ Len(fields[1]) = 4 /\ Len(fields[2]) = 2 /\ Len(fields[3]) = 2
        /\ \A i \in 1..3 : IsDigits(fields[i])

\* C31: validate_edit_payload rejects every non-empty test_date that is not
\* of the form YYYY-MM-DD, the partial forms YYYY-MM and YYYY too; when the
\* same text is also the review_date and is acceptable there, the error names
\* test_date, so the text is accepted as review_date and rejected as
\* test_date.
C31_TestDateStrict ==
    res.fn = "validate_edit_payload" =>
        LET raw == normalize_text(res.test_date)
        IN  raw # Empty /\ ~IsExactDateForm(raw) =>
                /\ ~res.value.valid
                /\ res.review_date = Empty => res.value.error[1] = "test_date"
                /\ res.review_date = res.test_date
                      /\ validate_optional_date(res.review_date, "review_date", FALSE).valid
                      => res.value.error[1] = "test_date"

\* C31 witness: 2024-01 was given as review_date and as test_date, and the
\* payload was rejected for its test_date.
C31_Witness ==
    /\ res.fn = "validate_edit_payload"
    /\ res.review_date = D_2024_01 /\ res.test_date = D_2024_01
    /\ validate_optional_date(D_2024_01, "review_date", FALSE).valid
    /\ ~res.value.valid /\ res.value.error[1] = "test_date"

\* C32: for every input validate_optional_date accepts, parse_date reads the
\* same calendar date from the normalized output as from the input, and
\* validating the normalized output again is accepted and returns the same
\* normalized text.
C32_NormalizationRoundTrips ==
    res.fn = "revalidated" =>
        /\ parse_date(res.first) = parse_date(arg.value)
        /\ res.value.valid
        /\ res.value.value = res.first

\* C32 witness: the partial date 2024-01 was normalized to 2024-01-01, a text
\* different from the input, and validated a second time.
C32_Witness ==
    /\ res.fn = "revalidated"
    /\ arg.value = D_2024_01
    /\ res.first = isoformat(<< 2024, 1, 1 >>)
    /\ res.first # normalize_text(arg.value)

\* No handler is under way: every process is idle, has returned or is dead.
Quiescent == \A p \in Procs : pc[p] \in {"ready", "done", "crashed"}

\* C33: an attempt to acquire file_lock ends, whatever the other processes
\* do: the caller creates the sentinel and is inside the body, or it gets a
\* TimeoutError, which happens only while the sentinel of another process
\* exists (or the caller is killed). A holder that is not killed leaves the
\* block, and once no handler is under way the only sentinels left are those
\* of processes killed inside the block.
C33_LockAttemptTerminates ==
    /\ \A p \in Procs :
          /\ pc[p] = "pue_lock" ~>
                \/ pc[p] = "pue_read" /\ lock["user"] = p
                \/ pc[p] = "done" /\ messages[p] = << SaveFailed("TimeoutError") >>
                \/ pc[p] = "crashed"
          /\ pc[p] = "aud_lock" ~>
                \/ pc[p] = "aud_read" /\ lock["audit"] = p
                \/ pc[p] = "done" /\ messages[p] = << SaveFailed("TimeoutError") >>
                \/ pc[p] = "crashed"
          /\ \A f \in {"user", "audit"} :
                lock[f] = p ~> (lock[f] # p \/ pc[p] = "crashed")
    /\ [][\A p \in Procs :
             /\ pc[p] = "pue_lock" /\ pc'[p] = "done" => lock["user"] \notin {NoProc, p}
             /\ pc[p] = "aud_lock" /\ pc'[p] = "done" => lock["audit"] \notin {NoProc, p}]_vars
    /\ [](Quiescent =>
            \A f \in {"user", "audit"} : lock[f] # NoProc => pc[lock[f]] = "crashed")

\* C33 witness: one process was killed inside the block of the edit log, its
\* sentinel is left, and the attempt of the other process has ended with a
\* TimeoutError.
C33_Witness ==
    \E p \in Procs, q \in Procs :
        /\ pc[q] = "crashed" /\ lock["user"] = q
        /\ pc[p] = "done" /\ messages[p] = << SaveFailed("TimeoutError") >>

\* C34 (as claimed): once a persist_user_edit call for a client has been
\* accepted, every committed state of the edit log holds exactly one active
\* entry of that client, wherever a process stops.
C34_ExactlyOneActiveOnceEdited ==
    \A c \in ClientIds :
        AcceptedFor(c) # {} => Cardinality(ActiveRowsOf(c)) = 1

\* The columns of the edit log that hold strings.
StringColumns == Range(USER_INPUT_COLUMNS) \ {"is_active"}

\* C35 (as claimed): the frame a committing persist_user_edit writes with
\* atomic_write_dataframe is read back by read_csv_or_empty with the same
\* text in every string field of every row, whatever the text spells; and
\* the rewrite leaves the comment of every entry that was in the file as it
\* was.
C35_CodecRoundTrips ==
    [][\A p \in Procs :
          pc[p] = "pue_write" /\ pc'[p] = "pue_unlock" /\ loc'[p].ok =>
              LET written == loc[p].pending
                  read_back == read_csv_or_empty(userFile', USER_INPUT_COLUMNS)
              IN  /\ Len(read_back) = Len(written)
                  /\ \A i \in DOMAIN written : \A c \in StringColumns :
                        read_back[i][c] = written[i][c]
                  /\ \A i \in DOMAIN userFile.rows :
                        userFile'.rows[i]["comment"] = userFile.rows[i]["comment"]]_vars

====
